---- MODULE Spec2Model ----
(***************************************************************************)
(* alpha-mask-events: the Manager of src/src/manager.js as a state machine. *)
(*                                                                         *)
(* The page (elements, their inline pointer-events, class and source), the *)
(* browser (image loads in flight, animation frames, mutation records,     *)
(* resize and intersection observers) and the Manager's own fields are the *)
(* state.  Every public method and every callback the Manager installs is  *)
(* one action.                                                             *)
(*                                                                         *)
(* Numbers: an alpha value is kept in units of 1/255000 (a pixel byte p is *)
(* p*1000 units, so p/255 is exact); a threshold is kept in thousandths    *)
(* (0.999 is 999) and is 255 units per thousandth.                         *)
(*                                                                         *)
(* Environment assumed: ResizeObserver, IntersectionObserver and           *)
(* MutationObserver exist in window, every element is attached under       *)
(* document.body, the computed transform of every element is 'none', a 2D  *)
(* canvas context is always obtained and the image is drawn stretched over *)
(* the whole buffer.  The helpers that compute the destination rectangle, *)
(* the position offsets and the inverse of a transform matrix are checked  *)
(* on their own, as calls recorded in calc.                                *)
(***************************************************************************)
EXTENDS Integers, Sequences, FiniteSets, TLC

\* ------------------------------------------------------------------ bounds
\* number of registrations (add() calls that create an entry) explored
MaxRegs == 2

\* ---------------------------------------------------------- the page model
Els == {"e1", "e2"}

Srcs == {"a.png", "b.png", "x.png"}

\* pointer-events an element computes to when it has no inline value
SheetPointerEvents(el) == "auto"

\* a box has fractional dimensions: width and height of a rect are kept in
\* tenths of a pixel, left and top in whole pixels
Tenths == 10

\* the box every element is laid out with: 4 x 2 pixels
DefaultBox == [width |-> 4 * Tenths, height |-> 2 * Tenths]

\* boxes the layout gives an element over time: collapsed, 0.4 x 0.4 (rounds
\* to 0 x 0), 1.2 x 0.6 (rounds to 1 x 1), 4 x 2 and 4.4 x 2 (rounds to 4 x 2)
Boxes ==
  { [width |-> 0, height |-> 0], [width |-> 4, height |-> 4],
    [width |-> 12, height |-> 6], DefaultBox, [width |-> 44, height |-> 20] }

\* the element the single-element specifications register
Focus == {"e1"}

\* pointer samples (clientX, clientY) delivered by the page
Points == { <<9, 9>>, <<1, 1>>, <<3, 1>>, <<5, 1>> }

NoEvent == <<-1, -1>>

\* alpha byte of the decoded image at a buffer column: the left half of
\* "a.png" is opaque and its right half has alpha 51/255 = 0.2; the left half
\* of "b.png" is fully transparent and its right half opaque
ImageByte(src, cx, cw) ==
  IF src = "a.png" THEN (IF 2 * cx < cw THEN 255 ELSE 51)
  ELSE IF src = "b.png" THEN (IF 2 * cx < cw THEN 0 ELSE 255)
  ELSE 255

\* a cross-origin image taints the buffer: getImageData throws
Tainted(src) == src = "x.png"

\* width and height of a canvas created by document.createElement('canvas'),
\* the defaults of the HTML canvas element
CanvasDefaultWidth == 300
CanvasDefaultHeight == 150

\* ------------------------------------------------------------- thresholds
DEFAULT_THRESHOLD == 999

\* threshold values the page passes to add() and setThreshold(), in
\* thousandths; -5000 and 5000 are out of range
ThresholdInputs == {-5000, 200, 5000}

AlphaOfByte(p) == p * 1000

ThresholdUnits(t) == t * 255

Max(a, b) == IF a > b THEN a ELSE b

Min(a, b) == IF a < b THEN a ELSE b


\* ------------------------------------------------------------------ state
VARIABLES
  style,                  \* el.style.pointerEvents of every element ("" = unset)
  hasClass,               \* el.classList.contains('alpha-mask-events')
  elSrc,                  \* the background-image URL the element declares
  threshold,              \* this.threshold
  useIntersectionObserver,\* this.useIntersectionObserver
  registry,               \* this.registry: element -> entry
  listenersAttached,      \* this._listenersAttached
  rafPending,             \* this._rafPending
  lastEvent,              \* this._lastEvent
  mutationObserver,       \* this._mutationObserver is set
  intersectionObserver,   \* this._intersectionObserver is set
  intersectionElements,   \* this._intersectionElements (= the observer's targets)
  resizeObservers,        \* this._resizeObservers: element -> observer (0 = none)
  roActive,               \* resize observers still observing: <<element, entry id>>
  loads,                  \* image loads in flight: [el, id, src]
  rafQueued,              \* animation-frame callbacks requested and not yet run
  mutQueue,               \* mutation records queued for the observer callback
  nextId,                 \* identity of the next entry object created by add()
  preReg,                 \* history: pointer-events the element had before add()
  sample,                 \* history: what the pass that just ran did with each element
  fired,                  \* history: event the pass that just ran dispatched on each element
  emitted,                \* history: type of the last event dispatched on the element since add()
  walk,                   \* history: progress along outside, opaque, transparent, outside
  overCount,              \* history: 'alpha-mask-over' events along that walk (2 = two or more)
  outCount,               \* history: 'alpha-mask-out' events along that walk (2 = two or more)
  burst,                  \* history: pointer events since the last frame callback (2 = two or more)
  delivered,              \* history: coordinates of the last event given to _onPointerEvent
  lastOp,                 \* history: the method or callback that ran last
  box,                    \* width and height of the element's box, in tenths of a pixel
  instance,               \* index.js: the module's Manager instance exists
  fault,                  \* the call that throws when made for the element ("none" = none)
  formatDetection,        \* history: what detectImageFormat returned in the last add()
  calc,                   \* a call of one of the pure helpers: its arguments and its result
  maskCache,              \* MASK_CACHE of the caching variant: source -> state of the cached Image
  transform               \* getComputedStyle(el).transform, as text

vars == << style, hasClass, elSrc, threshold, useIntersectionObserver, registry,
           listenersAttached, rafPending, lastEvent, mutationObserver,
           intersectionObserver, intersectionElements, resizeObservers, roActive,
           loads, rafQueued, mutQueue, nextId, preReg, sample, fired, emitted,
           walk, overCount, outCount, burst, delivered, lastOp, box, instance, fault, formatDetection, calc,
           maskCache, transform >>

\* el.getBoundingClientRect(): [left, top, width, height]
RectOf(el) ==
  [ left |-> IF el = "e1" THEN 0 ELSE 2, top |-> 0,
    width |-> box[el].width, height |-> box[el].height ]

\* Math.round of a length given in tenths
Round(tenths) == (tenths + Tenths \div 2) \div Tenths

\* no add() got as far as detectImageFormat
NoDetection == [format |-> << >>, hasAlpha |-> "none", browserSupport |-> "none",
                warning |-> FALSE]

\* no helper was called
NoCalc == [fn |-> "none"]

NoSample == [kind |-> "none", alpha |-> 0, threshold |-> 0]

NoFired == [type |-> "none", alpha |-> 0, x |-> 0, y |-> 0, threshold |-> 0, after |-> "none"]

\* the part of the state that add(), remove(), _hitTest() and the observer
\* callbacks read and write, as one record; the outputs of the previous pass
\* are forgotten when the next method or callback starts
Cur ==
  [ style |-> style, registry |-> registry, loads |-> loads, nextId |-> nextId,
    resizeObservers |-> resizeObservers, roActive |-> roActive,
    intersectionObserver |-> intersectionObserver,
    intersectionElements |-> intersectionElements,
    mutationObserver |-> mutationObserver, mutQueue |-> mutQueue,
    preReg |-> preReg, sample |-> [e \in Els |-> NoSample],
    fired |-> [e \in Els |-> NoFired],
    emitted |-> emitted, overCount |-> overCount, outCount |-> outCount,
    walk |-> walk, thrown |-> FALSE, formatDetection |-> NoDetection ]

Commit(S) ==
  /\ style' = S.style
  /\ registry' = S.registry
  /\ loads' = S.loads
  /\ nextId' = S.nextId
  /\ resizeObservers' = S.resizeObservers
  /\ roActive' = S.roActive
  /\ intersectionObserver' = S.intersectionObserver
  /\ intersectionElements' = S.intersectionElements
  /\ mutationObserver' = S.mutationObserver
  /\ mutQueue' = S.mutQueue
  /\ preReg' = S.preReg
  /\ sample' = S.sample
  /\ fired' = S.fired
  /\ emitted' = S.emitted
  /\ overCount' = S.overCount
  /\ outCount' = S.outCount
  /\ walk' = S.walk
  /\ formatDetection' = S.formatDetection

\* getComputedStyle(el).pointerEvents
ComputedPointerEvents(st, el) ==
  IF st[el] # "" THEN st[el] ELSE SheetPointerEvents(el)

\* el.style.pointerEvents = v; a write that changes the style attribute of an
\* observed element queues a mutation record
SetPointerEvents(S, el, v) ==
  [S EXCEPT !.style[el] = v,
            !.mutQueue = IF S.mutationObserver /\ S.style[el] # v
                           THEN Append(@, [attributeName |-> "style", target |-> el])
                           ELSE @]

Registered(S, el) == el \in DOMAIN S.registry

\* ------------------------------------------------------- format detection
\* s.split(sep) for a separator of one character
RECURSIVE Split(_, _)
Split(s, sep) ==
  IF \A i \in 1..Len(s) : s[i] # sep
    THEN << s >>
    ELSE LET i == CHOOSE k \in 1..Len(s) : s[k] = sep /\ \A j \in 1..(k - 1) : s[j] # sep
         IN << SubSeq(s, 1, i - 1) >> \o Split(SubSeq(s, i + 1, Len(s)), sep)

\* the characters of the URL a source of the page stands for
UrlText(src) ==
  CASE src = "a.png" -> << "a", ".", "p", "n", "g" >>
    [] src = "b.png" -> << "b", ".", "p", "n", "g" >>
    [] src = "x.png" -> << "x", ".", "p", "n", "g" >>
    [] src = "p.JPG?v=1" -> << "p", ".", "J", "P", "G", "?", "v", "=", "1" >>
    [] src = "q.xyz#f" -> << "q", ".", "x", "y", "z", "#", "f" >>
    [] src = "r.gif" -> << "r", ".", "g", "i", "f" >>
    [] src = "s.webp?a.b" -> << "s", ".", "w", "e", "b", "p", "?", "a", ".", "b" >>
    [] src = "noext" -> << "n", "o", "e", "x", "t" >>
    [] src = "dot." -> << "d", "o", "t", "." >>
    [] src = "t.tif" -> << "t", ".", "t", "i", "f" >>
    [] src = "m.n.tiff" -> << "m", ".", "n", ".", "t", "i", "f", "f" >>
    [] OTHER -> << >>

\* sources with a known, a no-alpha, an unknown and no extension, with a
\* query string and with a fragment
FormatSrcs ==
  { "a.png", "p.JPG?v=1", "q.xyz#f", "r.gif", "s.webp?a.b", "noext", "dot." }

\* String.prototype.toLowerCase, on the capitals the sources use
ToLowerCase(s) ==
  [ i \in 1..Len(s) |->
      CASE s[i] = "J" -> "j" [] s[i] = "P" -> "p" [] s[i] = "G" -> "g"
        [] s[i] = "N" -> "n" [] OTHER -> s[i] ]

SUPPORTED_FORMATS ==
  (<< "p", "n", "g" >> :> [hasAlpha |-> "true", browserSupport |-> "universal"])
  @@ (<< "w", "e", "b", "p" >> :> [hasAlpha |-> "true", browserSupport |-> "modern"])
  @@ (<< "a", "v", "i", "f" >> :> [hasAlpha |-> "true", browserSupport |-> "latest"])
  @@ (<< "g", "i", "f" >> :> [hasAlpha |-> "limited", browserSupport |-> "universal"])
  @@ (<< "j", "p", "g" >> :> [hasAlpha |-> "false", browserSupport |-> "universal"])
  @@ (<< "j", "p", "e", "g" >> :> [hasAlpha |-> "false", browserSupport |-> "universal"])
  @@ (<< "b", "m", "p" >> :> [hasAlpha |-> "false", browserSupport |-> "limited"])
  @@ (<< "t", "i", "f", "f" >> :> [hasAlpha |-> "limited", browserSupport |-> "limited"])
  @@ (<< "i", "c", "o" >> :> [hasAlpha |-> "limited", browserSupport |-> "limited"])
  @@ (<< "s", "v", "g" >> :> [hasAlpha |-> "true", browserSupport |-> "modern"])

\* detectImageFormat(src): the extension after the last '.' of the URL
\* without query string and fragment, in lower case, looked up in
\* SUPPORTED_FORMATS; warning tells whether a warning text is returned
detectImageFormat(src) ==
  LET urlPath == Split(Split(src, "?")[1], "#")[1]
      parts == Split(urlPath, ".")
      extension == ToLowerCase(parts[Len(parts)])
  IN IF extension = << >>
       THEN [format |-> << "u", "n", "k", "n", "o", "w", "n" >>, hasAlpha |-> "null",
             browserSupport |-> "null", warning |-> TRUE]
     ELSE IF extension \notin DOMAIN SUPPORTED_FORMATS
       THEN [format |-> extension, hasAlpha |-> "null", browserSupport |-> "null",
             warning |-> TRUE]
     ELSE LET formatInfo == SUPPORTED_FORMATS[extension]
          IN [format |-> extension, hasAlpha |-> formatInfo.hasAlpha,
              browserSupport |-> formatInfo.browserSupport,
              warning |-> \/ formatInfo.browserSupport \in {"modern", "latest"}
                          \/ formatInfo.hasAlpha \in {"false", "limited"}]

\* ------------------------------------------------------------ add / remove
\* the original read after add() has already written 'none'
OriginalPointerEventsAfterWrite(st, el) == "none"

\* el.style.pointerEvents || computedStyle.pointerEvents
OriginalPointerEvents(st, el) ==
  IF st[el] # "" THEN st[el] ELSE ComputedPointerEvents(st, el)

\* the opts argument of add(): with or without a threshold
NoOpts == [has |-> FALSE, threshold |-> 0]

Opts == {NoOpts} \cup {[has |-> TRUE, threshold |-> v] : v \in ThresholdInputs}

\* opts.threshold ?? this.threshold
EntryThreshold(opt, global) == IF opt.has THEN opt.threshold ELSE global

NewEntry(S, el, src, thr) ==
  [ id |-> S.nextId,
    threshold |-> thr,
    originalPointerEvents |-> OriginalPointerEvents(S.style, el),
    imageLoaded |-> FALSE,
    currentSrc |-> src,
    isVisible |-> TRUE,
    lastOpaqueState |-> "null",
    canvasWidth |-> CanvasDefaultWidth,
    canvasHeight |-> CanvasDefaultHeight,
    drawn |-> FALSE,
    drawFailed |-> FALSE,
    \* _transformCache: null is a cache that is not valid
    transformCache |-> [valid |-> FALSE, key |-> << >>, inverseMatrix |-> << >>],
    lastTransform |-> transform[el] ]

\* what add() may be given besides an element of the page: a selector that
\* matches nothing (document.querySelector gives null) and a node that is no
\* HTMLElement
NoTargets == {"#missing", "#text"}

\* el && el instanceof HTMLElement
IsHTMLElement(el) == el \in Els

\* an add() that registers again an element that is already tracked
AddOpAgain(S, el, src, opt, global) ==
  IF ~IsHTMLElement(el) \/ src = ""
    THEN S
    ELSE LET entry == NewEntry(S, el, src, EntryThreshold(opt, global))
             S1 == SetPointerEvents(S, el, "none")
         IN [S1 EXCEPT
               !.registry = [x \in DOMAIN @ \cup {el} |-> IF x = el THEN entry ELSE @[x]],
               !.loads = @ \cup {[el |-> el, id |-> entry.id, src |-> src]},
               !.nextId = @ + 1]

\* an add() that gives up when the format of the source is not a known one
AddOpKnownFormats(S, el, src, opt, global) ==
  IF ~IsHTMLElement(el) \/ Registered(S, el) \/ src = ""
    THEN S
  ELSE IF detectImageFormat(UrlText(src)).hasAlpha = "null"
    THEN [S EXCEPT !.formatDetection = detectImageFormat(UrlText(src))]
    ELSE LET entry == NewEntry(S, el, src, EntryThreshold(opt, global))
             S1 == SetPointerEvents(S, el, "none")
         IN [S1 EXCEPT
               !.registry = el :> entry @@ @,
               !.formatDetection = detectImageFormat(UrlText(src)),
               !.loads = @ \cup {[el |-> el, id |-> entry.id, src |-> src]},
               !.nextId = @ + 1,
               !.preReg[el] = ComputedPointerEvents(S.style, el),
               !.emitted[el] = "none",
               !.overCount[el] = 0,
               !.outCount[el] = 0,
               !.walk[el] = 0]

\* Manager.add(el, {threshold: opt}) for an element whose source is src; the
\* format detected for the source is only logged
AddOp(S, el, src, opt, global) ==
  IF ~IsHTMLElement(el) \/ Registered(S, el) \/ src = ""
    THEN S
    ELSE LET entry == NewEntry(S, el, src, EntryThreshold(opt, global))
             S1 == SetPointerEvents(S, el, "none")
         IN [S1 EXCEPT
               !.registry = el :> entry @@ @,
               !.formatDetection = detectImageFormat(UrlText(src)),
               !.loads = @ \cup {[el |-> el, id |-> entry.id, src |-> src]},
               !.nextId = @ + 1,
               !.preReg[el] = ComputedPointerEvents(S.style, el),
               !.emitted[el] = "none",
               !.overCount[el] = 0,
               !.outCount[el] = 0,
               !.walk[el] = 0]

\* Manager.remove(el)
RemoveOp(S, el) ==
  IF ~Registered(S, el)
    THEN S
    ELSE LET entry == S.registry[el]
             S1 == SetPointerEvents(S, el, entry.originalPointerEvents)
             ro == S1.resizeObservers[el]
             S2 == IF ro # 0
                     THEN [S1 EXCEPT !.roActive = @ \ {<<el, ro>>},
                                     !.resizeObservers[el] = 0]
                     ELSE S1
             S3 == IF S2.intersectionObserver /\ el \in S2.intersectionElements
                     THEN [S2 EXCEPT !.intersectionElements = @ \ {el}]
                     ELSE S2
         IN [S3 EXCEPT !.registry = [x \in DOMAIN @ \ {el} |-> @[x]]]

\* this.registry.forEach((entry, el) => this.remove(el))
RECURSIVE RemoveAll(_, _)
RemoveAll(S, els) ==
  IF els = {} THEN S
  ELSE LET el == CHOOSE x \in els : TRUE
       IN RemoveAll(RemoveOp(S, el), els \ {el})

\* ----------------------------------------------------------- rasterizing
\* Manager._drawBackgroundToCanvas(entry): nothing is drawn without an image
\* or on an empty buffer; otherwise the buffer is cleared and the image drawn.
\* When ctx.drawImage throws, the exception is logged and the cleared buffer
\* stays; drawFailed records that the last drawImage of the entry threw
DrawBackgroundToCanvas(entry, throws) ==
  IF ~entry.imageLoaded \/ entry.canvasWidth <= 0 \/ entry.canvasHeight <= 0
    THEN entry
  ELSE IF throws
    THEN [entry EXCEPT !.drawn = FALSE, !.drawFailed = TRUE]
    ELSE [entry EXCEPT !.drawn = TRUE, !.drawFailed = FALSE]

\* Manager._updateCanvas(entry), the resize observer's callback
UpdateCanvas(entry, rect, throws) ==
  LET newWidth == Round(rect.width)
      newHeight == Round(rect.height)
  IN
  IF ~entry.imageLoaded THEN entry
  ELSE IF entry.canvasWidth = newWidth /\ entry.canvasHeight = newHeight THEN entry
  ELSE IF newWidth <= 0 \/ newHeight <= 0
    THEN [entry EXCEPT !.canvasWidth = 1, !.canvasHeight = 1, !.drawn = FALSE]
    ELSE DrawBackgroundToCanvas(
           [entry EXCEPT !.canvasWidth = newWidth, !.canvasHeight = newHeight,
                         !.drawn = FALSE],
           throws)

\* the entry object a callback closed over is still the one in the registry
IsCurrent(S, el, id) == Registered(S, el) /\ S.registry[el].id = id

\* img.onload of the load started by the add() that created entry id
OnLoadOp(S, el, id, useIO) ==
  LET S1 == IF IsCurrent(S, el, id)
              THEN [S EXCEPT !.registry[el] =
                      DrawBackgroundToCanvas([@ EXCEPT !.imageLoaded = TRUE],
                                             fault[el] = "draw")]
              ELSE S
      S2 == [S1 EXCEPT !.roActive = @ \cup {<<el, id>>},
                       !.resizeObservers[el] = id]
      S3 == IF useIO /\ ~S2.intersectionObserver
              THEN [S2 EXCEPT !.intersectionObserver = TRUE]
              ELSE S2
  IN IF useIO /\ S3.intersectionObserver /\ el \notin S3.intersectionElements
       THEN LET S4 == [S3 EXCEPT !.intersectionElements = @ \cup {el}]
            IN IF IsCurrent(S4, el, id)
                 THEN [S4 EXCEPT !.registry[el].isVisible = TRUE]
                 ELSE S4
       ELSE S3

\* a failed load that is only logged
OnErrorOnlyLogs(S, el) == S

\* img.onerror: this.remove(el)
OnErrorOp(S, el) == RemoveOp(S, el)

\* ------------------------------------------------------------- hit-testing
\* Math.floor(relative * (size / extent)), the extent in tenths; on a box
\* without extent the quotient is not a number, which no bounds check accepts
\* (-1 here)
ScaleToCanvas(relative, size, extent) ==
  IF extent = 0 THEN -1 ELSE (relative * size * Tenths) \div extent

\* Manager._mapPointerToCanvasCoordinates, the branch for transform 'none'
MapPointerToCanvasCoordinates(x, y, rect, cw, ch) ==
  [ canvasX |-> ScaleToCanvas(x - rect.left, cw, rect.width),
    canvasY |-> ScaleToCanvas(y - rect.top, ch, rect.height) ]

ISqrt(n) == CHOOSE r \in 0..1000 : r * r <= n /\ n < (r + 1) * (r + 1)

\* Manager._approximateAlphaFromBounds: 1 within 0.35 of the centre of the box,
\* falling off to 0 towards the corners (distances in thousandths of the box)
ApproximateAlphaFromBounds(x, y, rect) ==
  LET relX == (1000 * Tenths * (x - rect.left)) \div rect.width
      relY == (1000 * Tenths * (y - rect.top)) \div rect.height
      d2 == (relX - 500) * (relX - 500) + (relY - 500) * (relY - 500)
  IN IF d2 <= 350 * 350
       THEN AlphaOfByte(255)
       ELSE Max(0, AlphaOfByte(255)
                     - (AlphaOfByte(255) * 3 * (ISqrt(d2) - 350)) \div (2 * (707 - 350)))

\* the mapped coordinates are inside the buffer
InBuffer(c, entry) ==
  /\ c.canvasX >= 0 /\ c.canvasX < entry.canvasWidth
  /\ c.canvasY >= 0 /\ c.canvasY < entry.canvasHeight

\* sampling that gives alpha 0 when getImageData throws
SampleAlphaNoFallback(entry, x, y, rect) ==
  LET c == MapPointerToCanvasCoordinates(x, y, rect, entry.canvasWidth, entry.canvasHeight)
  IN IF InBuffer(c, entry) /\ entry.drawn /\ ~Tainted(entry.currentSrc)
       THEN AlphaOfByte(ImageByte(entry.currentSrc, c.canvasX, entry.canvasWidth))
       ELSE 0

\* sampling that uses the approximation for coordinates outside the buffer too
SampleAlphaFallbackOutside(entry, x, y, rect) ==
  LET c == MapPointerToCanvasCoordinates(x, y, rect, entry.canvasWidth, entry.canvasHeight)
  IN IF ~InBuffer(c, entry) \/ (Tainted(entry.currentSrc) /\ entry.drawn)
       THEN ApproximateAlphaFromBounds(x, y, rect)
       ELSE IF entry.drawn
              THEN AlphaOfByte(ImageByte(entry.currentSrc, c.canvasX, entry.canvasWidth))
              ELSE 0

\* the alpha _hitTest classifies with, for a pointer inside the box
SampleAlpha(entry, x, y, rect) ==
  LET c == MapPointerToCanvasCoordinates(x, y, rect, entry.canvasWidth, entry.canvasHeight)
  IN IF InBuffer(c, entry)
       THEN IF Tainted(entry.currentSrc) /\ entry.drawn
              THEN ApproximateAlphaFromBounds(x, y, rect)
              ELSE IF entry.drawn
                     THEN AlphaOfByte(ImageByte(entry.currentSrc, c.canvasX, entry.canvasWidth))
                     ELSE 0
       ELSE 0

\* the comparison turned round
IsOpaqueBelow(alpha, thr) == alpha < ThresholdUnits(thr)

\* the comparison with >= in place of >
IsOpaqueInclusive(alpha, thr) == alpha >= ThresholdUnits(thr)

\* alpha > threshold
IsOpaque(alpha, thr) == alpha > ThresholdUnits(thr)

InsideRect(x, y, rect) ==
  /\ x >= rect.left /\ Tenths * x <= Tenths * rect.left + rect.width
  /\ y >= rect.top /\ Tenths * y <= Tenths * rect.top + rect.height

\* a leave on exit whenever a state is recorded, transparent included
LeavesOnExitFromAnyState(lastOpaqueState) == lastOpaqueState # "null"

\* if (entry._lastOpaqueState === true), with the pointer outside the box
LeavesOnExit(lastOpaqueState) == lastOpaqueState = "true"

\* Manager._dispatchAlphaMaskEvent: an exception of new CustomEvent or
\* dispatchEvent is caught and logged, and nothing is dispatched;
\* element.dispatchEvent runs the element's listeners before it returns, and
\* a page listener of the element's events may call unregister(el)
DispatchAlphaMaskEvent(S, el, type, alpha, cx, cy, thr) ==
  IF fault[el] = "dispatch" THEN S ELSE
  LET S1 == [S EXCEPT !.fired[el] = [type |-> type, alpha |-> alpha, x |-> cx, y |-> cy,
                                     threshold |-> thr, after |-> S.emitted[el]],
                      !.emitted[el] = type,
                      !.overCount[el] = IF type = "over" THEN Min(@ + 1, 2) ELSE @,
                      !.outCount[el] = IF type = "out" THEN Min(@ + 1, 2) ELSE @]
  IN IF fault[el] = "unregister" THEN RemoveOp(S1, el) ELSE S1

\* progress of an entry along outside, opaque, transparent, outside;
\* -1 once the passes that processed it left that sequence
WalkStep(w, kind) ==
  IF (w = 0 /\ kind = "outside") \/ (w = 1 /\ kind = "opaque")
     \/ (w = 2 /\ kind = "transparent") \/ (w = 3 /\ kind = "outside")
    THEN w + 1
    ELSE -1

\* a pass processed the entry of el with the pointer outside, on an opaque
\* or on a transparent pixel; events are counted while the walk lasts
Walked(S, el, kind) ==
  LET w == WalkStep(S.walk[el], kind)
  IN [S EXCEPT !.walk[el] = w,
               !.overCount[el] = IF w = -1 THEN 0 ELSE @,
               !.outCount[el] = IF w = -1 THEN 0 ELSE @]

\* CSS values are sequences of characters; numbers that need not be whole are
\* fractions n/d with d > 0, and nan is JavaScript's NaN
NaN == [nan |-> TRUE, n |-> 0, d |-> 1]

Num(n, d) == [nan |-> FALSE, n |-> n, d |-> d]

Digit == {"0", "1", "2", "3", "4", "5", "6", "7", "8", "9"}

DigitValue(c) ==
  CASE c = "0" -> 0 [] c = "1" -> 1 [] c = "2" -> 2 [] c = "3" -> 3 [] c = "4" -> 4
    [] c = "5" -> 5 [] c = "6" -> 6 [] c = "7" -> 7 [] c = "8" -> 8 [] c = "9" -> 9

\* the longest prefix of s made of digits
RECURSIVE LeadingDigits(_)
LeadingDigits(s) ==
  IF s = << >> \/ Head(s) \notin Digit
    THEN << >>
    ELSE << Head(s) >> \o LeadingDigits(Tail(s))

\* the number a sequence of digits writes
RECURSIVE DigitsNumber(_)
DigitsNumber(ds) ==
  IF ds = << >> THEN 0
  ELSE 10 * DigitsNumber(SubSeq(ds, 1, Len(ds) - 1)) + DigitValue(ds[Len(ds)])

\* parseFloat(s): an optional sign, digits, an optional fraction (its first two
\* digits are kept); whatever follows is ignored; NaN without any digit
ParseFloat(s) ==
  LET signed == s # << >> /\ Head(s) \in {"-", "+"}
      body == IF signed THEN Tail(s) ELSE s
      ip == LeadingDigits(body)
      rest == SubSeq(body, Len(ip) + 1, Len(body))
      fp == IF rest # << >> /\ Head(rest) = "." THEN LeadingDigits(Tail(rest)) ELSE << >>
      hundredths == (IF Len(fp) >= 1 THEN 10 * DigitValue(fp[1]) ELSE 0)
                    + (IF Len(fp) >= 2 THEN DigitValue(fp[2]) ELSE 0)
      mag == 100 * DigitsNumber(ip) + hundredths
  IN IF ip = << >> /\ fp = << >>
       THEN NaN
       ELSE Num(IF signed /\ Head(s) = "-" THEN -mag ELSE mag, 100)

\* the identity matrix, as numerators over a common denominator
IdentityMatrix == [num |-> << 1, 0, 0, 1, 0, 0 >>, den |-> 1]

\* an inversion that answers a singular matrix with the zero matrix
InvertMatrixZeroIfSingular(m) ==
  LET det == m[1] * m[4] - m[2] * m[3]
      s == IF det < 0 THEN -1 ELSE 1
  IN IF det = 0
       THEN [num |-> << 0, 0, 0, 0, 0, 0 >>, den |-> 1]
       ELSE [num |-> << s * 10 * m[4], -s * 10 * m[2], -s * 10 * m[3], s * 10 * m[1],
                        s * 10 * (m[3] * m[6] - m[4] * m[5]),
                        s * 10 * (m[2] * m[5] - m[1] * m[6]) >>,
             den |-> s * det]

\* Manager._invertMatrix([a, b, c, d, e, f]), a to d in tenths, e and f whole:
\* the determinant is in hundredths, so Math.abs(det) < 1e-10 is det = 0; the
\* inverse is d/det, -b/det, -c/det, a/det, (c*f - d*e)/det, (b*e - a*f)/det
InvertMatrix(m) ==
  LET det == m[1] * m[4] - m[2] * m[3]
      s == IF det < 0 THEN -1 ELSE 1
  IN IF det = 0
       THEN IdentityMatrix
       ELSE [num |-> << s * 10 * m[4], -s * 10 * m[2], -s * 10 * m[3], s * 10 * m[1],
                        s * 10 * (m[3] * m[6] - m[4] * m[5]),
                        s * 10 * (m[2] * m[5] - m[1] * m[6]) >>,
             den |-> s * det]

\* Manager._applyInverseTransform(x, y, inverseMatrix) for x and y in
\* twentieths of a pixel: numerators of the result over 20 * den
ApplyInverseTransform(x, y, inv) ==
  [ x |-> inv.num[1] * x + inv.num[3] * y + 20 * inv.num[5],
    y |-> inv.num[2] * x + inv.num[4] * y + 20 * inv.num[6] ]

\* Manager._mapPointerToCanvasCoordinates for a computed transform with
\* matrix m: the pointer relative to the centre of the box goes through the
\* inverse matrix and is scaled to the buffer
MapPointerTransformed(x, y, rect, cw, ch, m) ==
  LET inv == InvertMatrix(m)
      t == ApplyInverseTransform(20 * (x - rect.left) - rect.width,
                                 20 * (y - rect.top) - rect.height, inv)
  IN [ canvasX |-> IF rect.width = 0 THEN -1
                   ELSE ((t.x + rect.width * inv.den) * cw) \div (2 * inv.den * rect.width),
       canvasY |-> IF rect.height = 0 THEN -1
                   ELSE ((t.y + rect.height * inv.den) * ch) \div (2 * inv.den * rect.height) ]

\* Manager._parseTransformMatrix of a computed two-dimensional value: the
\* text between the brackets of matrix(...) is split at the commas and every
\* part goes through parseFloat; any other text gives the identity. The result
\* is [a, b, c, d, e, f] with a to d in tenths and e and f whole.
ParseTransformMatrix(text) ==
  LET Trim(s) == IF s # << >> /\ Head(s) = " " THEN Tail(s) ELSE s
      Values(parts) ==
        IF Len(parts) = 6
          THEN [i \in 1..6 |-> ParseFloat(Trim(parts[i])).n \div (IF i <= 4 THEN 10 ELSE 100)]
          ELSE << 10, 0, 0, 10, 0, 0 >>
  IN IF Len(text) > 8 /\ SubSeq(text, 1, 7) = << "m", "a", "t", "r", "i", "x", "(" >>
        /\ text[Len(text)] = ")"
       THEN Values(Split(SubSeq(text, 8, Len(text) - 1), ","))
       ELSE << 10, 0, 0, 10, 0, 0 >>

\* a cache key that leaves the transform out
TransformCacheKeyOfBox(text, rect) == << rect.width, rect.height >>

\* `${transform}_${rect.width}_${rect.height}`
TransformCacheKey(text, rect) == << text, rect.width, rect.height >>

\* Manager._mapPointerToCanvasCoordinates(clientX, clientY, el, rect, canvas,
\* entry): the coordinates it returns and the _transformCache it leaves in the
\* entry; used tells whether the inverse came from the cache
MapPointerCached(entry, text, x, y, rect) ==
  LET key == TransformCacheKey(text, rect)
      hit == entry.transformCache.valid /\ entry.transformCache.key = key
      inv == IF hit THEN entry.transformCache.inverseMatrix
                    ELSE InvertMatrix(ParseTransformMatrix(text))
      tc == ApplyInverseTransform(20 * (x - rect.left) - rect.width,
                                  20 * (y - rect.top) - rect.height, inv)
  IN IF text = << >> \/ text = << "n", "o", "n", "e" >>
       THEN [ c |-> MapPointerToCanvasCoordinates(x, y, rect, entry.canvasWidth,
                                                  entry.canvasHeight),
              cache |-> entry.transformCache, used |-> FALSE ]
       ELSE [ c |-> [ canvasX |-> IF rect.width = 0 THEN -1
                                  ELSE ((tc.x + rect.width * inv.den) * entry.canvasWidth)
                                         \div (2 * inv.den * rect.width),
                      canvasY |-> IF rect.height = 0 THEN -1
                                  ELSE ((tc.y + rect.height * inv.den) * entry.canvasHeight)
                                         \div (2 * inv.den * rect.height) ],
              cache |-> IF hit THEN entry.transformCache
                        ELSE [valid |-> TRUE, key |-> key, inverseMatrix |-> inv],
              used |-> hit ]

\* the body of this.registry.forEach in _hitTest, for one entry
HitTestEntry(S, el, x, y, useIO) ==
  LET entry == S.registry[el]
      thr == entry.threshold
      rect == RectOf(el)
      \* entry._lastOpaqueState = v, on the entry object the pass holds, which
      \* a listener may have taken out of the registry
      SetLastOpaqueState(T, v) ==
        IF Registered(T, el) /\ T.registry[el].id = entry.id
          THEN [T EXCEPT !.registry[el].lastOpaqueState = v]
          ELSE T
  IN
  IF useIO /\ ~entry.isVisible
    THEN [S EXCEPT !.sample[el] = [kind |-> "skipped", alpha |-> 0, threshold |-> thr]]
  ELSE IF ~entry.imageLoaded
    THEN LET S1 == IF S.style[el] # "none" THEN SetPointerEvents(S, el, "none") ELSE S
         IN [S1 EXCEPT !.sample[el] = [kind |-> "unloaded", alpha |-> 0, threshold |-> thr]]
  ELSE IF InsideRect(x, y, rect)
    THEN LET \* the branch, given what _mapPointerToCanvasCoordinates returned
             Inside(mapped) ==
               LET c == mapped.c
                   plain == mapped.c = MapPointerToCanvasCoordinates(x, y, rect, entry.canvasWidth,
                                                                     entry.canvasHeight)
                   \* SampleAlpha samples at the coordinates of the plain mapping; at
                   \* other coordinates the same sampling is written out
                   alpha == IF plain THEN SampleAlpha(entry, x, y, rect)
                            ELSE IF InBuffer(c, entry) /\ entry.drawn
                              THEN IF Tainted(entry.currentSrc)
                                     THEN ApproximateAlphaFromBounds(x, y, rect)
                                     ELSE AlphaOfByte(ImageByte(entry.currentSrc, c.canvasX,
                                                                entry.canvasWidth))
                              ELSE 0
                   S0 == [S EXCEPT !.registry[el].transformCache = mapped.cache]
                   isOpaque == IsOpaque(alpha, thr)
                   newPointerEvents == IF isOpaque THEN "auto" ELSE "none"
                   opaqueState == IF isOpaque THEN "true" ELSE "false"
                   S1 == IF entry.lastOpaqueState # opaqueState
                           THEN SetLastOpaqueState(
                                  DispatchAlphaMaskEvent(S0, el, IF isOpaque THEN "over" ELSE "out",
                                                         alpha, c.canvasX, c.canvasY, thr),
                                  opaqueState)
                           ELSE S0
                   S2 == IF S1.style[el] # newPointerEvents
                           THEN SetPointerEvents(S1, el, newPointerEvents)
                           ELSE S1
               IN [Walked(S2, el, IF isOpaque THEN "opaque" ELSE "transparent")
                     EXCEPT !.sample[el] = [kind |-> "inside", alpha |-> alpha, threshold |-> thr]]
         IN Inside(MapPointerCached(entry, transform[el], x, y, rect))
    ELSE LET S1 == IF S.style[el] # entry.originalPointerEvents
                     THEN SetPointerEvents(S, el, entry.originalPointerEvents)
                     ELSE S
             S2 == IF LeavesOnExit(entry.lastOpaqueState)
                     THEN SetLastOpaqueState(
                            DispatchAlphaMaskEvent(S1, el, "out", 0, -1, -1, thr), "null")
                     ELSE S1
         IN [Walked(S2, el, "outside")
               EXCEPT !.sample[el] = [kind |-> "outside", alpha |-> 0, threshold |-> thr]]

\* the body of this.registry.forEach throws for this entry: the entry is
\* visible and loaded and el.getBoundingClientRect() throws, or the pointer is
\* inside the box and getComputedStyle(el) throws in
\* _mapPointerToCanvasCoordinates; neither call is inside a try block
Throws(S, el, x, y, useIO) ==
  /\ ~(useIO /\ ~S.registry[el].isVisible)
  /\ S.registry[el].imageLoaded
  /\ \/ fault[el] = "rect"
     \/ fault[el] = "style" /\ InsideRect(x, y, RectOf(el))

\* an exception of the body for one entry leaves forEach and _hitTest
HitTestEntryOrThrow(S, el, x, y, useIO) ==
  IF Throws(S, el, x, y, useIO)
    THEN [S EXCEPT !.thrown = TRUE,
                   !.sample[el] = [kind |-> "threw", alpha |-> 0,
                                   threshold |-> S.registry[el].threshold]]
    ELSE HitTestEntry(S, el, x, y, useIO)

\* this.registry.forEach: the entries in the order they were put in the Map,
\* which is the order of their creation
RECURSIVE HitTestEach(_, _, _, _, _)
HitTestEach(S, els, x, y, useIO) ==
  IF els = {} \/ S.thrown THEN S
  ELSE LET el == CHOOSE e \in els : \A o \in els : S.registry[e].id <= S.registry[o].id
       IN HitTestEach(HitTestEntryOrThrow(S, el, x, y, useIO), els \ {el}, x, y, useIO)

\* Manager._hitTest(e) for an event with coordinates (x, y)
HitTestOp(S, x, y, useIO) ==
  HitTestEach(S, DOMAIN S.registry, x, y, useIO)

\* ------------------------------------------------------ observer callbacks
\* the MutationObserver callback's handling of one attribute record
MutationRecordOp(S, rec, hc, srcs, global) ==
  LET el == rec.target
      wasRegistered == Registered(S, el)
  IN IF hc[el] /\ ~wasRegistered
       THEN AddOp(S, el, srcs[el], NoOpts, global)
     ELSE IF ~hc[el] /\ wasRegistered
       THEN RemoveOp(S, el)
     ELSE IF wasRegistered /\ srcs[el] # "" /\ srcs[el] # S.registry[el].currentSrc
       THEN AddOp(RemoveOp(S, el), el, srcs[el], NoOpts, global)
     \* a style record: the cache is dropped when the computed transform is
     \* not the one the entry remembers
     ELSE IF wasRegistered /\ rec.attributeName = "style"
             /\ S.registry[el].transformCache.valid
             /\ S.registry[el].lastTransform # transform[el]
       THEN [S EXCEPT !.registry[el].transformCache =
                        [valid |-> FALSE, key |-> << >>, inverseMatrix |-> << >>],
                      !.registry[el].lastTransform = transform[el]]
     ELSE S

\* mutations.forEach(...)
RECURSIVE MutationCallback(_, _, _, _, _)
MutationCallback(S, records, hc, srcs, global) ==
  IF records = << >> THEN S
  ELSE MutationCallback(MutationRecordOp(S, Head(records), hc, srcs, global),
                        Tail(records), hc, srcs, global)

\* a visibility callback that records the flag and leaves the style alone
IntersectionOpKeepsStyle(S, el, isIntersecting) ==
  IF ~Registered(S, el)
    THEN S
    ELSE [S EXCEPT !.registry[el].isVisible = isIntersecting]

\* the IntersectionObserver callback for one observed element
IntersectionOp(S, el, isIntersecting) ==
  IF ~Registered(S, el)
    THEN S
    ELSE LET S1 == [S EXCEPT !.registry[el].isVisible = isIntersecting]
         IN IF ~isIntersecting
              THEN SetPointerEvents(S1, el, S1.registry[el].originalPointerEvents)
              ELSE S1

\* the value stored as given
ClampNothing(val) == val

\* Math.max(0, Math.min(1, val))
Clamp(val) == Max(0, Min(1000, val))

\* ---------------------------------------------------------------- actions
Op(name, el, hit) == [op |-> name, el |-> el, hit |-> hit]

\* new Manager({threshold, useIntersectionObserver}) on a page with two
\* elements, given the inline pointer-events, the classes and the sources the
\* page starts with and the thresholds the constructor may be given
InitPage(styles, classes, srcs, thresholds, calcs) ==
  /\ style \in styles
  /\ hasClass \in classes
  /\ elSrc \in srcs
  /\ threshold \in thresholds
  /\ useIntersectionObserver \in BOOLEAN
  /\ registry = << >>
  /\ listenersAttached = FALSE
  /\ rafPending = FALSE
  /\ lastEvent = NoEvent
  /\ mutationObserver = FALSE
  /\ intersectionObserver = FALSE
  /\ intersectionElements = {}
  /\ resizeObservers = [e \in Els |-> 0]
  /\ roActive = {}
  /\ loads = {}
  /\ rafQueued = 0
  /\ mutQueue = << >>
  /\ nextId = 1
  /\ preReg = [e \in Els |-> ComputedPointerEvents(style, e)]
  /\ sample = [e \in Els |-> NoSample]
  /\ fired = [e \in Els |-> NoFired]
  /\ emitted = [e \in Els |-> "none"]
  /\ walk = [e \in Els |-> 0]
  /\ overCount = [e \in Els |-> 0]
  /\ outCount = [e \in Els |-> 0]
  /\ burst = 0
  /\ delivered = NoEvent
  /\ lastOp = Op("init", "", FALSE)
  /\ box = [e \in Els |-> DefaultBox]
  /\ instance = FALSE
  /\ fault = [e \in Els |-> "none"]
  /\ formatDetection = NoDetection
  /\ calc \in calcs
  /\ maskCache = [s \in Srcs |-> "none"]
  /\ transform = [e \in Els |-> << "n", "o", "n", "e" >>]

\* new Manager({threshold, useIntersectionObserver}) on a page
InitWith(styles, classes, srcs, thresholds) ==
  InitPage(styles, classes, srcs, thresholds, {NoCalc})

\* new Manager({useIntersectionObserver}): threshold = DEFAULT_THRESHOLD
InitOn(styles, classes, srcs) == InitWith(styles, classes, srcs, {DEFAULT_THRESHOLD})

\* a page whose first element has inline pointer-events or not, and carries the
\* 'alpha-mask-events' class or not
Init ==
  InitOn({[e \in Els |-> IF e = "e1" THEN s ELSE ""] : s \in {"", "none"}},
         {[e \in Els |-> e = "e1" /\ c] : c \in BOOLEAN},
         {[e \in Els |-> IF e = "e1" THEN "a.png" ELSE "b.png"]})

\* a page whose image is same-origin or cross-origin, registered by hand
InitHit ==
  InitOn({[e \in Els |-> ""]},
         {[e \in Els |-> FALSE]},
         {[e \in Els |-> IF e = "e1" THEN s ELSE "b.png"] : s \in {"a.png", "x.png"}})

\* a page of two overlapping images without the class, each with inline
\* pointer-events or not
InitTwo ==
  InitOn([Els -> {"", "none"}],
         {[e \in Els |-> FALSE]},
         {[e \in Els |-> IF e = "e1" THEN "a.png" ELSE "b.png"]})

\* no task runs while mutation records wait for the microtask checkpoint
Idle == mutQueue = << >>

Page == << hasClass, elSrc, box, fault, calc, maskCache, transform >>

\* Manager.add(el, opts)
Add(el, opt) ==
  /\ Idle
  /\ nextId <= MaxRegs
  /\ Commit(AddOp(Cur, el, elSrc[el], opt, threshold))
  /\ lastOp' = Op("add", el, el \notin DOMAIN registry)
  /\ UNCHANGED << threshold, useIntersectionObserver, listenersAttached, rafPending,
                  lastEvent, rafQueued, burst, delivered, Page, instance >>

\* Manager.add(target, opts) for a target that is no element of the page
AddNoTarget(target, opt) ==
  /\ Idle
  /\ Commit(AddOp(Cur, target, "", opt, threshold))
  /\ lastOp' = Op("add", target, FALSE)
  /\ UNCHANGED << threshold, useIntersectionObserver, listenersAttached, rafPending,
                  lastEvent, rafQueued, burst, delivered, Page, instance >>

\* Manager.remove(el)
Remove(el) ==
  /\ Idle
  /\ Commit(RemoveOp(Cur, el))
  /\ lastOp' = Op("remove", el, el \in DOMAIN registry)
  /\ UNCHANGED << threshold, useIntersectionObserver, listenersAttached, rafPending,
                  lastEvent, rafQueued, burst, delivered, Page, instance >>

\* document.querySelectorAll('.alpha-mask-events').forEach(el => this.add(el))
RECURSIVE AddEach(_, _, _, _)
AddEach(S, els, srcs, global) ==
  IF els = {} THEN S
  ELSE LET el == CHOOSE e \in els : TRUE
       IN AddEach(AddOp(S, el, srcs[el], NoOpts, global), els \ {el}, srcs, global)

\* Manager.scan(): register, then _observeMutations and _setupIntersectionObserver
ScanOp(S, hc, srcs, global, useIO) ==
  LET S1 == AddEach(S, {e \in Els : hc[e]}, srcs, global)
  IN [S1 EXCEPT !.mutationObserver = TRUE,
                !.intersectionObserver = @ \/ useIO]

Scan ==
  /\ Idle
  /\ LET S == ScanOp(Cur, hasClass, elSrc, threshold, useIntersectionObserver)
     IN /\ S.nextId <= MaxRegs + 1
        /\ Commit(S)
  /\ lastOp' = Op("scan", "", FALSE)
  /\ UNCHANGED << threshold, useIntersectionObserver, listenersAttached, rafPending,
                  lastEvent, rafQueued, burst, delivered, Page, instance >>

\* a setThreshold whose call without an element leaves the entries alone
SetThresholdOpKeepsEntries(S, val, target) ==
  IF target # "all" /\ Registered(S, target)
    THEN [S EXCEPT !.registry[target].threshold = Clamp(val)]
    ELSE S

\* a setThreshold that ignores the element it is given
SetThresholdOpEveryEntry(S, val, target) ==
  [S EXCEPT !.registry = [e \in DOMAIN @ |-> [@[e] EXCEPT !.threshold = Clamp(val)]]]

\* Manager.setThreshold(val, el); target "all" is the call without an element
SetThresholdOp(S, val, target) ==
  IF target = "all"
    THEN [S EXCEPT !.registry = [e \in DOMAIN @ |-> [@[e] EXCEPT !.threshold = Clamp(val)]]]
    ELSE IF Registered(S, target)
           THEN [S EXCEPT !.registry[target].threshold = Clamp(val)]
           ELSE S

SetThreshold(val, target) ==
  /\ Idle
  /\ threshold' = IF target = "all" THEN Clamp(val) ELSE threshold
  /\ Commit(SetThresholdOp(Cur, val, target))
  /\ lastOp' = Op("setThreshold", IF target = "all" THEN "" ELSE target,
                  target \in DOMAIN registry)
  /\ UNCHANGED << useIntersectionObserver, listenersAttached, rafPending,
                  lastEvent, rafQueued, burst, delivered, Page, instance >>

\* Manager.attachListeners()
AttachListeners ==
  /\ Idle
  /\ listenersAttached' = TRUE
  /\ Commit(Cur)
  /\ lastOp' = Op("attach", "", ~listenersAttached)
  /\ UNCHANGED << threshold, useIntersectionObserver, rafPending,
                  lastEvent, rafQueued, burst, delivered, Page, instance >>

\* Manager.detachListeners(), past its early return
DetachOp(S) ==
  LET S1 == [S EXCEPT !.mutationObserver = FALSE,
                      !.intersectionElements = IF S.intersectionObserver THEN {} ELSE @,
                      !.intersectionObserver = FALSE]
      S2 == RemoveAll(S1, DOMAIN S1.registry)
  IN [S2 EXCEPT !.registry = << >>,
                !.resizeObservers = [e \in Els |-> 0]]

\* if (!this._listenersAttached) return;
DetachReturnsEarly(attached) == ~attached

DetachListeners ==
  /\ Idle
  /\ IF DetachReturnsEarly(listenersAttached)
       THEN /\ Commit(Cur)
            /\ listenersAttached' = listenersAttached
       ELSE /\ Commit(DetachOp(Cur))
            /\ listenersAttached' = FALSE
  /\ lastOp' = Op("detach", "", listenersAttached)
  /\ UNCHANGED << threshold, useIntersectionObserver, rafPending,
                  lastEvent, rafQueued, burst, delivered, Page, instance >>

\* the event kept only when it requests the frame
StoredFirstEvent(e, last, pending) == IF pending THEN last ELSE e

\* this._lastEvent = e
StoredEvent(e, last, pending) == e

\* if (!this._rafPending)
RequestsFrame(pending) == ~pending

\* Manager._onPointerEvent(e), e a pointer event the document delivers
PointerEvent(p) ==
  /\ Idle
  /\ listenersAttached
  /\ lastEvent' = StoredEvent(p, lastEvent, rafPending)
  /\ IF RequestsFrame(rafPending)
       THEN rafPending' = TRUE /\ rafQueued' = rafQueued + 1
       ELSE rafPending' = rafPending /\ rafQueued' = rafQueued
  /\ burst' = Min(burst + 1, 2)
  /\ delivered' = p
  /\ Commit(Cur)
  /\ lastOp' = Op("pointer", "", FALSE)
  /\ UNCHANGED << threshold, useIntersectionObserver, listenersAttached, Page, instance >>

\* the requestAnimationFrame callback of _onPointerEvent
RafCallback ==
  /\ Idle
  /\ rafQueued > 0
  /\ rafQueued' = rafQueued - 1
  /\ rafPending' = FALSE
  /\ IF lastEvent # NoEvent
       THEN Commit(HitTestOp(Cur, lastEvent[1], lastEvent[2], useIntersectionObserver))
       ELSE Commit(Cur)
  /\ burst' = 0
  /\ lastOp' = Op("raf", "", lastEvent # NoEvent)
  /\ UNCHANGED << threshold, useIntersectionObserver, listenersAttached, lastEvent,
                  delivered, Page, instance >>

\* img.onload
LoadSuccess(l) ==
  /\ Idle
  /\ l \in loads
  /\ Commit([OnLoadOp(Cur, l.el, l.id, useIntersectionObserver)
               EXCEPT !.loads = @ \ {l}])
  /\ lastOp' = Op("onload", l.el, IsCurrent(Cur, l.el, l.id))
  /\ UNCHANGED << threshold, useIntersectionObserver, listenersAttached, rafPending,
                  lastEvent, rafQueued, burst, delivered, Page, instance >>

\* img.onerror
LoadError(l) ==
  /\ Idle
  /\ l \in loads
  /\ Commit([OnErrorOp(Cur, l.el) EXCEPT !.loads = @ \ {l}])
  /\ lastOp' = Op("onerror", l.el, IsCurrent(Cur, l.el, l.id))
  /\ UNCHANGED << threshold, useIntersectionObserver, listenersAttached, rafPending,
                  lastEvent, rafQueued, burst, delivered, Page, instance >>

\* the callback of a ResizeObserver created by img.onload: _updateCanvas(entry)
ResizeOp(S, el, id) ==
  IF IsCurrent(S, el, id)
    THEN [S EXCEPT !.registry[el] = UpdateCanvas(@, RectOf(el), fault[el] = "draw")]
    ELSE S

ResizeNotify(o) ==
  /\ Idle
  /\ o \in roActive
  /\ Commit(ResizeOp(Cur, o[1], o[2]))
  /\ lastOp' = Op("resize", o[1], IsCurrent(Cur, o[1], o[2]))
  /\ UNCHANGED << threshold, useIntersectionObserver, listenersAttached, rafPending,
                  lastEvent, rafQueued, burst, delivered, Page, instance >>

\* the IntersectionObserver reports whether an observed element intersects
IntersectionNotify(el, isIntersecting) ==
  /\ Idle
  /\ intersectionObserver
  /\ el \in intersectionElements
  /\ Commit(IntersectionOp(Cur, el, isIntersecting))
  /\ lastOp' = Op("intersect", el, isIntersecting)
  /\ UNCHANGED << threshold, useIntersectionObserver, listenersAttached, rafPending,
                  lastEvent, rafQueued, burst, delivered, Page, instance >>

\* the MutationObserver callback, run at the microtask checkpoint
DeliverMutations ==
  /\ mutQueue # << >>
  /\ LET S == MutationCallback([Cur EXCEPT !.mutQueue = << >>], mutQueue,
                               hasClass, elSrc, threshold)
     IN /\ S.nextId <= MaxRegs + 1
        /\ Commit(S)
  /\ lastOp' = Op("mutations", Head(mutQueue).target, FALSE)
  /\ UNCHANGED << threshold, useIntersectionObserver, listenersAttached, rafPending,
                  lastEvent, rafQueued, burst, delivered, Page, instance >>

\* pointer samples explored together with the whole life cycle: outside the
\* box and on an opaque pixel of "a.png"
LifePoints == { <<9, 9>>, <<1, 1>> }

\* every method and callback, on one element
Next ==
  \/ \E el \in Focus : Add(el, NoOpts)
  \/ \E el \in Focus : Remove(el)
  \/ Scan
  \/ \E target \in Focus \cup {"all"} : SetThreshold(5000, target)
  \/ AttachListeners
  \/ DetachListeners
  \/ \E p \in LifePoints : PointerEvent(p)
  \/ RafCallback
  \/ \E l \in loads : LoadSuccess(l)
  \/ \E l \in loads : LoadError(l)
  \/ \E o \in roActive : ResizeNotify(o)
  \/ \E el \in Focus, b \in BOOLEAN : IntersectionNotify(el, b)
  \/ DeliverMutations

Spec == Init /\ [][Next]_vars

\* registration, thresholds and hit-testing in detail, on one element
NextHit ==
  \/ \E el \in Focus, opt \in Opts : Add(el, opt)
  \/ \E val \in ThresholdInputs, target \in Focus \cup {"all"} : SetThreshold(val, target)
  \/ AttachListeners
  \/ \E p \in Points : PointerEvent(p)
  \/ RafCallback
  \/ \E l \in loads : LoadSuccess(l)
  \/ \E o \in roActive : ResizeNotify(o)
  \/ \E el \in Focus, b \in BOOLEAN : IntersectionNotify(el, b)

SpecHit == InitHit /\ [][NextHit]_vars

\* pointer samples explored on two elements: an opaque pixel of the first
\* element outside the second, and an opaque pixel of the second outside the first
TwoPoints == { <<1, 1>>, <<5, 1>> }

\* registering, hit-testing and tearing down two elements
NextTwo ==
  \/ \E el \in Els : Add(el, NoOpts)
  \/ AttachListeners
  \/ DetachListeners
  \/ \E p \in TwoPoints : PointerEvent(p)
  \/ RafCallback
  \/ \E l \in loads : LoadSuccess(l)
  \/ \E l \in loads : LoadError(l)
  \/ \E el \in Els, b \in BOOLEAN : IntersectionNotify(el, b)

SpecTwo == InitTwo /\ [][NextTwo]_vars

\* the layout gives an element another box; the element's ResizeObserver, if
\* any, is notified by ResizeNotify
SetBox(el, b) ==
  /\ Idle
  /\ box[el] # b
  /\ box' = [box EXCEPT ![el] = b]
  /\ Commit(Cur)
  /\ lastOp' = Op("layout", el, FALSE)
  /\ UNCHANGED << threshold, useIntersectionObserver, listenersAttached, rafPending,
                  lastEvent, rafQueued, burst, delivered, hasClass, elSrc, instance, fault, calc,
                  maskCache, transform >>

\* pointer samples explored while the box changes: the top left corner of the
\* box, inside every box, and a pixel inside the boxes of 4 pixels width only
BoxPoints == { <<0, 0>>, <<3, 1>> }

\* an element whose box changes while it is registered and hit-tested
NextResize ==
  \/ \E el \in Focus : Add(el, NoOpts)
  \/ \E el \in Focus, b \in Boxes : SetBox(el, b)
  \/ \E o \in roActive : ResizeNotify(o)
  \/ \E l \in loads : LoadSuccess(l)
  \/ AttachListeners
  \/ \E p \in BoxPoints : PointerEvent(p)
  \/ RafCallback

SpecResize == InitHit /\ [][NextResize]_vars

\* a Manager constructed with or without a threshold, on a page of two images
\* without the class
InitThreshold ==
  InitWith({[e \in Els |-> ""]},
           {[e \in Els |-> FALSE]},
           {[e \in Els |-> IF e = "e1" THEN "a.png" ELSE "b.png"]},
           {DEFAULT_THRESHOLD} \cup ThresholdInputs)

\* registering two elements with and without thresholds of their own, and
\* changing thresholds
NextThreshold ==
  \/ \E el \in Els, opt \in Opts : Add(el, opt)
  \/ \E el \in Els : Remove(el)
  \/ \E val \in ThresholdInputs, target \in Els \cup {"all"} : SetThreshold(val, target)

SpecThreshold == InitThreshold /\ [][NextThreshold]_vars

\* ------------------------------------------------------ index.js, the module
\* the options init() is given
InitOptions == [autoScan : BOOLEAN]

\* init(): instance.scan() is called whatever the options say
InitScans(options) == TRUE

\* init(options) when no instance exists: new Manager(options), scan(),
\* attachListeners(); the fields of the Manager to be are those of Init
IndexInitOp(S, options, hc, srcs, global, useIO) ==
  IF InitScans(options) THEN ScanOp(S, hc, srcs, global, useIO) ELSE S

\* the threshold the constructor takes from its options:
\* { threshold = DEFAULT_THRESHOLD, ... } = {}
OptionThreshold(options) ==
  IF "threshold" \in DOMAIN options THEN options.threshold ELSE DEFAULT_THRESHOLD

\* an init() that sets up a Manager on every call
NoInstanceEver(inst) == TRUE

\* if (!instance)
NoInstance(inst) == ~inst

\* index.js init(options)
IndexInit(options) ==
  /\ Idle
  /\ IF NoInstance(instance)
       THEN LET S == IndexInitOp(Cur, options, hasClass, elSrc, OptionThreshold(options),
                                 useIntersectionObserver)
            IN /\ S.nextId <= MaxRegs + 1
               /\ Commit(S)
               /\ listenersAttached' = TRUE
               /\ threshold' = OptionThreshold(options)
       ELSE /\ Commit(Cur)
            /\ listenersAttached' = listenersAttached
            /\ threshold' = threshold
  /\ instance' = TRUE
  /\ lastOp' = Op("index.init", "", ~instance)
  /\ UNCHANGED << useIntersectionObserver, rafPending, lastEvent,
                  rafQueued, burst, delivered, Page >>

\* index.js register(el, options): init() when no instance exists, then add
IndexRegister(el, opt) ==
  /\ Idle
  /\ LET global == IF instance THEN threshold ELSE OptionThreshold(<< >>)
         S0 == IF instance THEN Cur
               ELSE IndexInitOp(Cur, << >>, hasClass, elSrc, global,
                                useIntersectionObserver)
         S == AddOp(S0, el, elSrc[el], opt, global)
     IN /\ S.nextId <= MaxRegs + 1
        /\ Commit(S)
        /\ threshold' = global
        /\ lastOp' = Op("index.register", el, S.nextId # S0.nextId)
  /\ listenersAttached' = (instance => listenersAttached)
  /\ instance' = TRUE
  /\ UNCHANGED << useIntersectionObserver, rafPending, lastEvent,
                  rafQueued, burst, delivered, Page >>

\* index.js unregister(el)
IndexUnregister(el) ==
  /\ Idle
  /\ Commit(IF instance THEN RemoveOp(Cur, el) ELSE Cur)
  /\ lastOp' = Op("index.unregister", el, instance /\ el \in DOMAIN registry)
  /\ UNCHANGED << threshold, useIntersectionObserver, listenersAttached, rafPending,
                  lastEvent, rafQueued, burst, delivered, Page, instance >>

\* index.js setThreshold(threshold); the record of the call notes whether an
\* entry had a threshold other than the global one when it was made
IndexSetThreshold(val) ==
  /\ Idle
  /\ IF instance
       THEN /\ threshold' = Clamp(val)
            /\ Commit(SetThresholdOp(Cur, val, "all"))
       ELSE /\ threshold' = threshold
            /\ Commit(Cur)
  /\ lastOp' = Op("index.setThreshold", "",
                  instance /\ \E el \in DOMAIN registry : registry[el].threshold # threshold)
  /\ UNCHANGED << useIntersectionObserver, listenersAttached, rafPending,
                  lastEvent, rafQueued, burst, delivered, Page, instance >>

\* a page whose first element has no class, with inline pointer-events or
\* not, and whose second element carries the class or not
InitIndex ==
  InitOn({[e \in Els |-> IF e = "e1" THEN s ELSE ""] : s \in {"", "none"}},
         {[e \in Els |-> e = "e2" /\ c] : c \in BOOLEAN},
         {[e \in Els |-> IF e = "e1" THEN "a.png" ELSE "b.png"]})

\* the functions index.js exports, and the callbacks of the Manager they set up
NextIndex ==
  \/ \E options \in InitOptions : IndexInit(options)
  \/ \E opt \in Opts : IndexRegister("e1", opt)
  \/ \E el \in Els : IndexUnregister(el)
  \/ \E val \in ThresholdInputs : IndexSetThreshold(val)
  \/ \E p \in LifePoints : PointerEvent(p)
  \/ RafCallback
  \/ \E l \in loads : LoadSuccess(l)
  \/ DeliverMutations

SpecIndex == InitIndex /\ [][NextIndex]_vars

\* the functions index.js exports, called in any order, init() with and
\* without options
NextSingleton ==
  \/ \E options \in InitOptions \cup {<< >>, [threshold |-> 200]} : IndexInit(options)
  \/ \E el \in Els : IndexRegister(el, NoOpts)
  \/ \E el \in Els : IndexUnregister(el)
  \/ \E val \in {200, 5000} : IndexSetThreshold(val)
  \/ \E l \in loads : LoadSuccess(l)
  \/ DeliverMutations

SpecSingleton == InitIndex /\ [][NextSingleton]_vars

\* a page whose first element has a background image and whose second has none
InitAdd ==
  InitOn({[e \in Els |-> IF e = "e1" THEN s ELSE ""] : s \in {"", "none"}},
         {[e \in Els |-> FALSE]},
         {[e \in Els |-> IF e = "e1" THEN "a.png" ELSE ""]})

\* add() on elements with and without a source, on tracked elements and on
\* targets that are no element, between hit-test passes
NextAdd ==
  \/ \E el \in Els, opt \in Opts : Add(el, opt)
  \/ \E target \in NoTargets, opt \in Opts : AddNoTarget(target, opt)
  \/ \E el \in Els : Remove(el)
  \/ AttachListeners
  \/ \E p \in LifePoints : PointerEvent(p)
  \/ RafCallback
  \/ \E l \in loads : LoadSuccess(l)

SpecAdd == InitAdd /\ [][NextAdd]_vars

\* calls that may throw when made for an element: el.getBoundingClientRect(),
\* getComputedStyle(el), and new CustomEvent / el.dispatchEvent
Faults == {"rect", "style", "dispatch"}

\* from now on the call throws when it is made for the element; with the
\* kind "unregister", the page gives the element a listener of
\* 'alpha-mask-over' and 'alpha-mask-out' that calls unregister(el)
BreakElement(el, kind) ==
  /\ Idle
  /\ fault[el] = "none"
  /\ fault' = [fault EXCEPT ![el] = kind]
  /\ Commit(Cur)
  /\ lastOp' = Op("break", el, FALSE)
  /\ UNCHANGED << threshold, useIntersectionObserver, listenersAttached, rafPending,
                  lastEvent, rafQueued, burst, delivered, hasClass, elSrc, box, instance, calc,
                  maskCache, transform >>

\* hit-testing two elements while calls made for them may throw
NextFault ==
  \/ \E el \in Els : Add(el, NoOpts)
  \/ \E el \in Els, kind \in Faults : BreakElement(el, kind)
  \/ AttachListeners
  \/ \E p \in TwoPoints : PointerEvent(p)
  \/ RafCallback
  \/ \E l \in loads : LoadSuccess(l)

SpecFault == InitTwo /\ [][NextFault]_vars

\* hit-testing two elements whose listeners may unregister them
NextListener ==
  \/ \E el \in Els : Add(el, NoOpts)
  \/ \E el \in Els : BreakElement(el, "unregister")
  \/ AttachListeners
  \/ \E p \in TwoPoints \cup {<<9, 9>>} : PointerEvent(p)
  \/ RafCallback
  \/ \E l \in loads : LoadSuccess(l)

SpecListener == InitTwo /\ [][NextListener]_vars

\* pointer samples on the box of the first element (4 x 2 at the origin): its
\* centre, its four corners, the middle of its right edge, and one outside
FallbackPoints == { <<2, 1>>, <<0, 0>>, <<4, 0>>, <<0, 2>>, <<4, 2>>, <<4, 1>>, <<9, 9>> }

\* hit-testing one element at its centre, corners and edges, with a readable
\* or tainted buffer and with a drawImage that works or throws
NextFallback ==
  \/ \E el \in Focus : Add(el, NoOpts)
  \/ \E el \in Focus : BreakElement(el, "draw")
  \/ \E l \in loads : LoadSuccess(l)
  \/ \E o \in roActive : ResizeNotify(o)
  \/ AttachListeners
  \/ \E p \in FallbackPoints : PointerEvent(p)
  \/ RafCallback

SpecFallback == InitHit /\ [][NextFallback]_vars

\* --------------------------------------------------- the rasterizer's helpers
\* value.endsWith('%')
EndsWith(s, c) == s # << >> /\ s[Len(s)] = c

\* parts[1] || parts[0]
SecondOrFirst(parts) ==
  IF Len(parts) >= 2 /\ parts[2] # << >> THEN parts[2] ELSE parts[1]

\* the keywords of background-size and background-position, and the space
\* that separates two values
Css ==
  [ cover |-> << "c", "o", "v", "e", "r" >>,
    contain |-> << "c", "o", "n", "t", "a", "i", "n" >>,
    auto |-> << "a", "u", "t", "o" >>,
    left |-> << "l", "e", "f", "t" >>,
    top |-> << "t", "o", "p" >>,
    center |-> << "c", "e", "n", "t", "e", "r" >>,
    right |-> << "r", "i", "g", "h", "t" >>,
    bottom |-> << "b", "o", "t", "t", "o", "m" >>,
    space |-> << " " >> ]

\* Math.round(n/d), halves upwards
RoundFraction(n, d) == (2 * n + d) \div (2 * d)

\* Math.round(q)
MathRound(q) == IF q.nan THEN NaN ELSE Num(RoundFraction(q.n, q.d), 1)

\* Math.max(1, Math.round(q))
RoundAtLeastOne(q) == IF q.nan THEN NaN ELSE Num(Max(1, RoundFraction(q.n, q.d)), 1)

\* q * n / d
Scaled(q, n, d) == IF q.nan THEN NaN ELSE Num(q.n * n, q.d * d)

\* Manager._parseCssDimension(value, containerSize, imageSize)
ParseCssDimension(value, containerSize, imageSize) ==
  IF value = << >> \/ value = Css.auto THEN Num(imageSize, 1)
  ELSE IF EndsWith(value, "%") THEN Scaled(ParseFloat(value), containerSize, 100)
  ELSE ParseFloat(value)

\* a percentage taken of the container's size alone
ParseCssPositionOfContainer(value, containerSize, itemSize) ==
  IF value = << >> \/ value \in {Css.left, Css.top} THEN Num(0, 1)
  ELSE IF itemSize.nan /\ (value \in {Css.center, Css.right, Css.bottom} \/ EndsWith(value, "%"))
    THEN NaN
  ELSE IF value = Css.center
    THEN Num(containerSize * itemSize.d - itemSize.n, 2 * itemSize.d)
  ELSE IF value \in {Css.right, Css.bottom}
    THEN Num(containerSize * itemSize.d - itemSize.n, itemSize.d)
  ELSE IF EndsWith(value, "%")
    THEN Scaled(ParseFloat(value), containerSize, 100)
  ELSE ParseFloat(value)

\* Manager._parseCssPosition(value, containerSize, itemSize)
ParseCssPosition(value, containerSize, itemSize) ==
  IF value = << >> \/ value \in {Css.left, Css.top} THEN Num(0, 1)
  ELSE IF itemSize.nan /\ (value \in {Css.center, Css.right, Css.bottom} \/ EndsWith(value, "%"))
    THEN NaN
  ELSE IF value = Css.center
    THEN Num(containerSize * itemSize.d - itemSize.n, 2 * itemSize.d)
  ELSE IF value \in {Css.right, Css.bottom}
    THEN Num(containerSize * itemSize.d - itemSize.n, itemSize.d)
  ELSE IF EndsWith(value, "%")
    THEN Scaled(ParseFloat(value), containerSize * itemSize.d - itemSize.n,
                100 * itemSize.d)
  ELSE ParseFloat(value)

\* the comparison of the two ratios turned round
ImageNarrower(iw, ih, cw, ch) == iw * ch < cw * ih

\* imgRatio > canvasRatio, for positive sizes
ImageWider(iw, ih, cw, ch) == iw * ch > cw * ih

\* Manager._drawBackgroundToCanvas: (dw, dh) from background-size, before
\* they are rounded
DestinationSize(bgSize, cw, ch, iw, ih) ==
  LET parts == Split(bgSize, " ")
      sizeX == ParseCssDimension(parts[1], cw, iw)
      sizeY == ParseCssDimension(SecondOrFirst(parts), ch, ih)
      second == Len(parts) >= 2 /\ parts[2] # << >>
  IN
  IF bgSize = Css.cover
    THEN IF ImageWider(iw, ih, cw, ch)
           THEN [dw |-> Num(ch * iw, ih), dh |-> Num(ch, 1)]
           ELSE [dw |-> Num(cw, 1), dh |-> Num(cw * ih, iw)]
  ELSE IF bgSize = Css.contain
    THEN IF ImageWider(iw, ih, cw, ch)
           THEN [dw |-> Num(cw, 1), dh |-> Num(cw * ih, iw)]
           ELSE [dw |-> Num(ch * iw, ih), dh |-> Num(ch, 1)]
  ELSE IF bgSize = Css.auto \/ bgSize = Css.auto \o Css.space \o Css.auto
    THEN [dw |-> Num(iw, 1), dh |-> Num(ih, 1)]
  ELSE IF parts[1] = Css.auto /\ second /\ parts[2] # Css.auto
    THEN [dw |-> Scaled(sizeY, iw, ih), dh |-> sizeY]
  ELSE IF second /\ parts[2] = Css.auto /\ parts[1] # << >> /\ parts[1] # Css.auto
    THEN [dw |-> sizeX, dh |-> Scaled(sizeX, ih, iw)]
  ELSE [dw |-> sizeX, dh |-> sizeY]

\* Manager._drawBackgroundToCanvas: the destination rectangle of drawImage
DestinationRect(bgSize, bgPos, cw, ch, iw, ih) ==
  LET size == DestinationSize(bgSize, cw, ch, iw, ih)
      dw == RoundAtLeastOne(size.dw)
      dh == RoundAtLeastOne(size.dh)
      posParts == Split(bgPos, " ")
      posX == ParseCssPosition(posParts[1], cw, dw)
      posY == ParseCssPosition(SecondOrFirst(posParts), ch, dh)
  IN [dx |-> MathRound(posX), dy |-> MathRound(posY), dw |-> dw, dh |-> dh]

\* position values with the number they write: keywords, percentages (in
\* hundredths of a percent) and lengths (in hundredths of a pixel)
PositionValues ==
  { [text |-> Css.left, kind |-> "start", num |-> 0],
    [text |-> Css.top, kind |-> "start", num |-> 0],
    [text |-> Css.center, kind |-> "center", num |-> 0],
    [text |-> Css.right, kind |-> "end", num |-> 0],
    [text |-> Css.bottom, kind |-> "end", num |-> 0],
    [text |-> << "0", "%" >>, kind |-> "percent", num |-> 0],
    [text |-> << "2", "5", "%" >>, kind |-> "percent", num |-> 2500],
    [text |-> << "1", "2", ".", "5", "%" >>, kind |-> "percent", num |-> 1250],
    [text |-> << "5", "0", "%" >>, kind |-> "percent", num |-> 5000],
    [text |-> << "1", "0", "0", "%" >>, kind |-> "percent", num |-> 10000],
    [text |-> << "1", "0", "p", "x" >>, kind |-> "length", num |-> 1000],
    [text |-> << "-", "5", "p", "x" >>, kind |-> "length", num |-> -500],
    [text |-> << "7", ".", "2", "5", "p", "x" >>, kind |-> "length", num |-> 725] }

\* the calls of the helpers that are explored: _drawBackgroundToCanvas with
\* buffer sizes, natural sizes and computed background-size and
\* background-position values; _parseCssPosition; _invertMatrix and the
\* mapping, with matrix components a to d in tenths
HelperCalls ==
  LET sizes == {1, 50, 100}
      entries == {-10, 0, 5, 10, 20}
  IN
  [ fn : {"draw"}, done : {FALSE},
    bgSize : { Css.cover, Css.contain, Css.auto,
               << "5", "0", "%" >> \o Css.space \o Css.auto, << >> },
    bgPos : { Css.center, << "5", "0", "%" >> \o Css.space \o << "5", "0", "%" >>,
              << "0", "%" >> \o Css.space \o << "0", "%" >>,
              Css.right \o Css.space \o Css.bottom },
    cw : sizes, ch : sizes, iw : {1, 3, 100, 200}, ih : {1, 3, 100, 200},
    out : {[dx |-> NaN, dy |-> NaN, dw |-> NaN, dh |-> NaN]} ]
  \cup
  [ fn : {"position"}, done : {FALSE}, value : PositionValues,
    containerSize : sizes, itemSize : {1, 50, 100, 150}, out : {NaN} ]
  \cup
  [ fn : {"invert"}, done : {FALSE},
    matrix : { << a, b, c, d, e, 0 >> :
                 a \in entries, b \in entries, c \in entries, d \in entries,
                 e \in {0, 3} },
    point : TwoPoints, cw : {4, 300}, ch : {2},
    inverse : {IdentityMatrix}, mapped : {[canvasX |-> -1, canvasY |-> -1]} ]

\* everything but the call of a helper
Program ==
  << style, hasClass, elSrc, threshold, useIntersectionObserver, registry,
     listenersAttached, rafPending, lastEvent, mutationObserver, intersectionObserver,
     intersectionElements, resizeObservers, roActive, loads, rafQueued, mutQueue,
     nextId, preReg, sample, fired, emitted, walk, overCount, outCount, burst,
     delivered, lastOp, box, instance, fault, formatDetection, maskCache, transform >>

\* _drawBackgroundToCanvas computes the destination rectangle
DrawBackground ==
  /\ calc.fn = "draw" /\ ~calc.done
  /\ calc' = [calc EXCEPT !.done = TRUE,
                          !.out = DestinationRect(calc.bgSize, calc.bgPos, calc.cw,
                                                  calc.ch, calc.iw, calc.ih)]
  /\ UNCHANGED Program

\* _parseCssPosition(value, containerSize, itemSize)
ParsePosition ==
  /\ calc.fn = "position" /\ ~calc.done
  /\ calc' = [calc EXCEPT !.done = TRUE,
                          !.out = ParseCssPosition(calc.value.text, calc.containerSize,
                                                   Num(calc.itemSize, 1))]
  /\ UNCHANGED Program

\* _mapPointerToCanvasCoordinates inverts the matrix of the computed transform
\* and maps the pointer
InvertAndMap ==
  /\ calc.fn = "invert" /\ ~calc.done
  /\ calc' = [calc EXCEPT !.done = TRUE,
                          !.inverse = InvertMatrix(calc.matrix),
                          !.mapped = MapPointerTransformed(calc.point[1], calc.point[2],
                                                           RectOf("e1"), calc.cw, calc.ch,
                                                           calc.matrix)]
  /\ UNCHANGED Program

InitHelpers ==
  InitPage({[e \in Els |-> ""]}, {[e \in Els |-> FALSE]},
           {[e \in Els |-> IF e = "e1" THEN "a.png" ELSE "b.png"]},
           {DEFAULT_THRESHOLD}, HelperCalls)

NextHelpers ==
  \/ DrawBackground
  \/ ParsePosition
  \/ InvertAndMap

SpecHelpers == InitHelpers /\ [][NextHelpers]_vars

\* a page whose first image has a source of any of the formats
InitFormat ==
  InitOn({[e \in Els |-> ""]},
         {[e \in Els |-> FALSE]},
         {[e \in Els |-> IF e = "e1" THEN s ELSE "b.png"] : s \in FormatSrcs})

\* registering and unregistering images of several formats
NextFormat ==
  \/ \E el \in Els : Add(el, NoOpts)
  \/ \E el \in Els : Remove(el)
  \/ \E l \in loads : LoadSuccess(l)
  \/ \E l \in loads : LoadError(l)

SpecFormat == InitFormat /\ [][NextFormat]_vars

\* the browser settles a load: img.onload or img.onerror runs
Settles(l) == LoadSuccess(l) \/ LoadError(l)

\* a page of two images without the class and without inline pointer-events
InitLoad ==
  InitOn({[e \in Els |-> ""]},
         {[e \in Els |-> FALSE]},
         {[e \in Els |-> IF e = "e1" THEN "a.png" ELSE "b.png"]})

\* registering and unregistering two images whose loads succeed or fail
NextLoad ==
  \/ \E el \in Els : Add(el, NoOpts)
  \/ \E el \in Els : Remove(el)
  \/ \E l \in loads : LoadSuccess(l)
  \/ \E l \in loads : LoadError(l)

\* every load that add() started by img.src = src is settled by the browser
\* in the end
SpecLoad ==
  /\ InitLoad
  /\ [][NextLoad]_vars
  /\ \A el \in Els, id \in 1..MaxRegs :
       WF_vars(Settles([el |-> el, id |-> id, src |-> elSrc[el]]))

\* the page gives the element's style attribute another transform; an
\* observed style attribute queues a mutation record
SetTransform(el, text) ==
  /\ Idle
  /\ transform[el] # text
  /\ transform' = [transform EXCEPT ![el] = text]
  /\ Commit([Cur EXCEPT !.mutQueue = IF mutationObserver
                                       THEN Append(@, [attributeName |-> "style",
                                                       target |-> el])
                                       ELSE @])
  /\ lastOp' = Op("transform", el, FALSE)
  /\ UNCHANGED << threshold, useIntersectionObserver, listenersAttached, rafPending,
                  lastEvent, rafQueued, burst, delivered, hasClass, elSrc, box, instance,
                  fault, calc, maskCache >>

\* computed transforms: none, a scaling by 2 and a scaling by 0.5
Transforms ==
  { << "n", "o", "n", "e" >>,
    << "m", "a", "t", "r", "i", "x", "(", "2", ",", " ", "0", ",", " ", "0", ",", " ", "2", ",", " ", "0", ",", " ", "0", ")" >>,
    << "m", "a", "t", "r", "i", "x", "(", "0", ".", "5", ",", " ", "0", ",", " ", "0", ",", " ", "0", ".", "5", ",", " ", "0", ",", " ", "0", ")" >> }

\* an element with the class or without it, found by scan() or registered by
\* hand, whose transform and box change between hit-tests
NextTransform ==
  \/ Scan
  \/ \E el \in Focus : Add(el, NoOpts)
  \/ \E el \in Focus, text \in Transforms : SetTransform(el, text)
  \/ \E el \in Focus, b \in {DefaultBox, [width |-> 20, height |-> 20]} : SetBox(el, b)
  \/ AttachListeners
  \/ \E p \in {<<1, 1>>, <<2, 1>>} : PointerEvent(p)
  \/ RafCallback
  \/ \E l \in loads : LoadSuccess(l)
  \/ DeliverMutations

SpecTransform == Init /\ [][NextTransform]_vars

\* bursts of pointer events on a page whose listeners are attached and
\* detached and whose first image is registered and loads
NextFrame ==
  \/ \E el \in Focus : Add(el, NoOpts)
  \/ AttachListeners
  \/ DetachListeners
  \/ \E p \in LifePoints \cup {<<3, 1>>} : PointerEvent(p)
  \/ RafCallback
  \/ \E l \in loads : LoadSuccess(l)

\* a step that takes a callback from the queue of requestAnimationFrame and
\* runs it: of the actions, RafCallback alone takes a callback from the queue
FrameRuns == Idle /\ rafQueued > 0 /\ rafQueued' = rafQueued - 1

\* the browser runs every callback that requestAnimationFrame queued
SpecFrame == InitLoad /\ [][NextFrame]_vars /\ WF_rafQueued(FrameRuns)

\* ------------------------------------- the variant with the source cache
\* Manager.add of the variant that keeps MASK_CACHE, a module-level Map from
\* a source to the Image object created for it; the Image is "loading",
\* "complete" or "broken" ("none": the Map has no entry for the source).
\* Up to the creation of the entry the method is the one of manager.js.
AddCachedOp(S, el, src, global, useIO, cache) ==
  LET S1 == AddOp(S, el, src, NoOpts, global)
  IN IF S1.nextId # S.nextId /\ cache[src] # "none"
       \* if (MASK_CACHE.has(src)): imageLoaded = true, draw, observers; no load
       THEN OnLoadOp([S1 EXCEPT !.loads = S.loads], el, S.nextId, useIO)
       \* else: img.src = src
       ELSE S1

\* add(el) of the caching variant; MASK_CACHE.set(src, img) follows
\* img.src = src at once
AddCached(el) ==
  /\ Idle
  /\ nextId <= MaxRegs
  /\ LET S == AddCachedOp(Cur, el, elSrc[el], threshold, useIntersectionObserver, maskCache)
     IN /\ Commit(S)
        /\ maskCache' = IF S.nextId # nextId /\ maskCache[elSrc[el]] = "none"
                          THEN [maskCache EXCEPT ![elSrc[el]] = "loading"]
                          ELSE maskCache
  /\ lastOp' = Op("add", el, el \notin DOMAIN registry)
  /\ UNCHANGED << threshold, useIntersectionObserver, listenersAttached, rafPending,
                  lastEvent, rafQueued, burst, delivered, hasClass, elSrc, box, fault,
                  calc, instance, transform >>

\* img.onload (ok) or img.onerror of a load of the caching variant: onload
\* ends with MASK_CACHE.set(src, img), onerror with this.remove(el); the
\* Image the Map holds for the source is the one that was loading
SettleCached(l, ok) ==
  /\ Idle
  /\ l \in loads
  /\ Commit([(IF ok THEN OnLoadOp(Cur, l.el, l.id, useIntersectionObserver)
                    ELSE OnErrorOp(Cur, l.el))
               EXCEPT !.loads = @ \ {l}])
  /\ maskCache' = [maskCache EXCEPT ![l.src] = IF ok THEN "complete" ELSE "broken"]
  /\ lastOp' = Op(IF ok THEN "onload" ELSE "onerror", l.el, IsCurrent(Cur, l.el, l.id))
  /\ UNCHANGED << threshold, useIntersectionObserver, listenersAttached, rafPending,
                  lastEvent, rafQueued, burst, delivered, hasClass, elSrc, box, fault,
                  calc, instance, transform >>

\* two elements that show the same image, registered and unregistered while
\* the image loads or fails to load
NextCache ==
  \/ \E el \in Els : AddCached(el)
  \/ \E el \in Els : Remove(el)
  \/ \E l \in loads, ok \in BOOLEAN : SettleCached(l, ok)

\* a page of two elements without the class that show the same image
InitCache ==
  InitOn([Els -> {"", "none"}], {[e \in Els |-> FALSE]}, {[e \in Els |-> "a.png"]})

SpecCache == InitCache /\ [][NextCache]_vars

\* ------------------------------------------- the mask-precomputation tool
\* a scan that closes every run after one pixel
RunEndAfterOnePixel(mask, width, y, x0) == x0 + 1

\* the inner loop of maskToRects that advances over the pixels of a run:
\* the first column from x0 on, in row y, whose mask value is 0, or width
RunEnd(mask, width, y, x0) ==
  IF \E k \in x0..(width - 1) : mask[y * width + k + 1] = 0
    THEN CHOOSE k \in x0..(width - 1) :
           /\ mask[y * width + k + 1] = 0
           /\ \A j \in x0..(k - 1) : mask[y * width + j + 1] # 0
    ELSE width

\* maskToRects(mask, width, height) of bin/generate-masks.js: every row is
\* scanned from the left, transparent pixels are skipped and each run of
\* opaque pixels is pushed as a rectangle of height 1; mask[i] of the code is
\* mask[i + 1] here
maskToRects(mask, width, height) ==
  LET RunStart(y, x) ==
        IF \E k \in x..(width - 1) : mask[y * width + k + 1] # 0
          THEN CHOOSE k \in x..(width - 1) :
                 /\ mask[y * width + k + 1] # 0
                 /\ \A j \in x..(k - 1) : mask[y * width + j + 1] = 0
          ELSE width
      RECURSIVE Row(_, _)
      Row(y, x) ==
        LET x0 == RunStart(y, x)
        IN IF x0 >= width THEN << >>
           ELSE LET x1 == RunEnd(mask, width, y, x0)
                IN << [x |-> x0, y |-> y, w |-> x1 - x0, h |-> 1] >> \o Row(y, x1)
      RECURSIVE Rows(_)
      Rows(y) == IF y >= height THEN << >> ELSE Row(y, 0) \o Rows(y + 1)
  IN Rows(0)

\* detectImageFormat(path) of bin/generate-masks.js: the extension after the
\* last '.' of the path without query string and fragment, in lower case,
\* looked up in formatMap; null is << >>, which no format is
cliDetectImageFormat(path) ==
  LET cleanPath == Split(Split(path, "?")[1], "#")[1]
      parts == Split(ToLowerCase(cleanPath), ".")
      extension == parts[Len(parts)]
      formatMap ==
        (<< "p", "n", "g" >> :> << "p", "n", "g" >>)
        @@ (<< "j", "p", "g" >> :> << "j", "p", "g" >>)
        @@ (<< "j", "p", "e", "g" >> :> << "j", "p", "e", "g" >>)
        @@ (<< "w", "e", "b", "p" >> :> << "w", "e", "b", "p" >>)
        @@ (<< "a", "v", "i", "f" >> :> << "a", "v", "i", "f" >>)
        @@ (<< "g", "i", "f" >> :> << "g", "i", "f" >>)
        @@ (<< "b", "m", "p" >> :> << "b", "m", "p" >>)
        @@ (<< "t", "i", "f", "f" >> :> << "t", "i", "f", "f" >>)
        @@ (<< "t", "i", "f" >> :> << "t", "i", "f", "f" >>)
        @@ (<< "s", "v", "g" >> :> << "s", "v", "g" >>)
        @@ (<< "i", "c", "o" >> :> << "i", "c", "o" >>)
  IN IF extension \in DOMAIN formatMap THEN formatMap[extension] ELSE << >>

\* isSupportedImageFormat(path) of bin/generate-masks.js: '.' and the
\* extension, found as in detectImageFormat, is one of supportedExtensions
isSupportedImageFormat(path) ==
  LET cleanPath == Split(Split(path, "?")[1], "#")[1]
      parts == Split(ToLowerCase(cleanPath), ".")
      extension == parts[Len(parts)]
      supportedExtensions ==
        { << ".", "p", "n", "g" >>, << ".", "w", "e", "b", "p" >>,
          << ".", "a", "v", "i", "f" >>, << ".", "g", "i", "f" >>,
          << ".", "b", "m", "p" >>, << ".", "t", "i", "f", "f" >>,
          << ".", "j", "p", "g" >>, << ".", "j", "p", "e", "g" >>,
          << ".", "s", "v", "g" >>, << ".", "i", "c", "o" >> }
  IN (<< "." >> \o extension) \in supportedExtensions

\* the largest image the tool is run on
MaxMaskWidth == 3
MaxMaskHeight == 2

\* the calls of the tool that are explored: maskToRects on every mask of an
\* image of up to MaxMaskWidth by MaxMaskHeight pixels, and the two format
\* functions on paths with a known and an unknown extension, without an
\* extension, with a query string, a fragment, capitals and earlier dots
CliCalls ==
  UNION { [ fn : {"rects"}, done : {FALSE}, width : {w}, height : {h},
            mask : [1..(w * h) -> {0, 1}], out : {<< >>} ] :
          w \in 1..MaxMaskWidth, h \in 1..MaxMaskHeight }
  \cup
  [ fn : {"format"}, done : {FALSE},
    path : { UrlText(s) : s \in FormatSrcs \cup {"t.tif", "m.n.tiff"} },
    format : {<< >>}, supported : {FALSE} ]

\* the tool turns a mask into rectangles
RunMaskToRects ==
  /\ calc.fn = "rects" /\ ~calc.done
  /\ calc' = [calc EXCEPT !.done = TRUE,
                          !.out = maskToRects(calc.mask, calc.width, calc.height)]
  /\ UNCHANGED Program

\* the tool detects the format of a path and validates it
CheckFormat ==
  /\ calc.fn = "format" /\ ~calc.done
  /\ calc' = [calc EXCEPT !.done = TRUE,
                          !.format = cliDetectImageFormat(calc.path),
                          !.supported = isSupportedImageFormat(calc.path)]
  /\ UNCHANGED Program

InitCli ==
  InitPage({[e \in Els |-> ""]}, {[e \in Els |-> FALSE]},
           {[e \in Els |-> IF e = "e1" THEN "a.png" ELSE "b.png"]},
           {DEFAULT_THRESHOLD}, CliCalls)

NextCli ==
  \/ RunMaskToRects
  \/ CheckFormat

SpecCli == InitCli /\ [][NextCli]_vars

\* ================================================================== claims

\* C1: after a pass that found the pointer inside the box of a loaded, visible
\* entry and classified with alpha a, the element's pointer-events is 'auto'
\* when a is strictly greater than the entry's threshold and 'none' otherwise,
\* so a equal to the threshold gives 'none'.
C1_StrictThreshold ==
  \A el \in Els :
    sample[el].kind = "inside" =>
      style[el] = IF sample[el].alpha > ThresholdUnits(sample[el].threshold)
                    THEN "auto" ELSE "none"

\* a pass classified an alpha above zero that equals the threshold: pass-through
C1_Witness ==
  \E el \in Els :
    /\ sample[el].kind = "inside"
    /\ sample[el].alpha > 0
    /\ sample[el].alpha = ThresholdUnits(sample[el].threshold)
    /\ style[el] = "none"

\* C2: an element leaves the registry only by remove(), detachListeners() or
\* the failure of a load; in particular not in the mutation observer's callback.
C2_OnlyUnregisterRemoves ==
  [][\A el \in Els :
       (el \in DOMAIN registry /\ el \notin DOMAIN registry')
         => lastOp'.op \in {"remove", "detach", "onerror"}]_vars

\* C3: remove(el) of a tracked element leaves el out of the registry with the
\* pointer-events it had before add(el); remove(el) of an untracked element
\* changes nothing.
C3_RemoveRestores ==
  [][\A el \in Els :
       (lastOp'.op = "remove" /\ lastOp'.el = el) =>
         IF lastOp'.hit
           THEN /\ el \notin DOMAIN registry'
                /\ ComputedPointerEvents(style', el) = preReg[el]
           ELSE UNCHANGED << style, registry, loads, nextId, resizeObservers, roActive,
                             intersectionObserver, intersectionElements,
                             mutationObserver, mutQueue, threshold, listenersAttached,
                             rafPending, lastEvent, rafQueued >>]_vars

\* an element that started with 'none' was made interactive by a pass and then
\* unregistered
C3_Witness ==
  /\ lastOp = Op("remove", "e1", TRUE)
  /\ emitted["e1"] = "over"
  /\ preReg["e1"] = "none"
  /\ style["e1"] = "none"

\* C4: the passes outside, opaque, transparent, outside on a newly registered
\* entry dispatch one 'alpha-mask-over' then one 'alpha-mask-out', and nothing
\* when the pointer leaves the box.
C4_OneEnterOneLeave ==
  \A el \in Els :
    /\ walk[el] = 1 => (overCount[el] = 0 /\ outCount[el] = 0 /\ emitted[el] = "none")
    /\ walk[el] = 2 => (overCount[el] = 1 /\ outCount[el] = 0 /\ emitted[el] = "over")
    /\ walk[el] = 3 => (overCount[el] = 1 /\ outCount[el] = 1 /\ emitted[el] = "out")
    /\ walk[el] = 4 => (overCount[el] = 1 /\ outCount[el] = 1 /\ emitted[el] = "out"
                        /\ fired[el].type = "none")

\* the four passes have run
C4_Witness == \E el \in Els : walk[el] = 4 /\ lastOp.op = "raf"

\* C5: every 'alpha-mask-out' dispatched on an element follows an
\* 'alpha-mask-over' on it, with no other event in between.
C5_OutFollowsOver ==
  \A el \in Els : fired[el].type = "out" => fired[el].after = "over"

\* C6: at most one animation-frame callback is outstanding, exactly one while
\* pointer events wait for it, and the pass it runs is the hit test at the
\* coordinates of the last event delivered.
C6_Coalescing ==
  /\ [](rafQueued <= 1 /\ (burst > 0 <=> rafQueued = 1))
  /\ [][rafQueued' < rafQueued =>
          LET S == HitTestOp(Cur, delivered[1], delivered[2], useIntersectionObserver)
          IN /\ delivered # NoEvent
             /\ style' = S.style
             /\ registry' = S.registry
             /\ sample' = S.sample
             /\ fired' = S.fired]_vars

\* two or more events wait for one callback while an entry is registered
C6_Witness == burst = 2 /\ rafQueued = 1 /\ "e1" \in DOMAIN registry

\* C7: while an entry is not loaded, the element's pointer-events is 'none'
\* right after add() and after every pass, its lastOpaqueState is unset and no
\* event has been dispatched on it.
C7_UnloadedExcluded ==
  \A el \in DOMAIN registry :
    ~registry[el].imageLoaded =>
      /\ ((lastOp = Op("add", el, TRUE) \/ lastOp = Op("raf", "", TRUE)) => style[el] = "none")
      /\ registry[el].lastOpaqueState = "null"
      /\ emitted[el] = "none"
      /\ fired[el].type = "none"

\* C8: after img.onerror the element is not in the registry and has the
\* pointer-events it had before it was registered.
C8_LoadFailureUnregisters ==
  \A el \in Els :
    (lastOp.op = "onerror" /\ lastOp.el = el) =>
      /\ el \notin DOMAIN registry
      /\ ComputedPointerEvents(style, el) = preReg[el]

\* the load of the entry in the registry failed and 'auto' came back
C8_Witness ==
  /\ lastOp = Op("onerror", "e1", TRUE)
  /\ preReg["e1"] = "auto"
  /\ style["e1"] = "auto"

\* C9: only registered elements are under resize or visibility observation.
C9_ObservedAreRegistered ==
  {o[1] : o \in roActive} \cup intersectionElements \subseteq DOMAIN registry

\* C10: after detachListeners() the registry is empty and every element has
\* the pointer-events it had before it was registered.
C10_DetachClears ==
  lastOp.op = "detach" =>
    /\ registry = << >>
    /\ \A el \in Els : ComputedPointerEvents(style, el) = preReg[el]

\* C11: with visibility culling enabled, a notification that a registered
\* element does not intersect leaves the element with the pointer-events it had
\* before registration, and a hit-test pass over an entry that is not visible
\* changes neither the element's pointer-events nor the entry's
\* lastOpaqueState and dispatches no event on the element
C11_InvisiblePaused ==
  /\ [](\A el \in DOMAIN registry :
          (useIntersectionObserver /\ lastOp = Op("intersect", el, FALSE))
            => /\ ~registry[el].isVisible
               /\ ComputedPointerEvents(style, el) = preReg[el])
  /\ [][\A el \in DOMAIN registry :
          (useIntersectionObserver /\ ~registry[el].isVisible
             /\ lastOp' = Op("raf", "", TRUE))
            => /\ style'[el] = style[el]
               /\ el \in DOMAIN registry'
               /\ registry'[el].lastOpaqueState = registry[el].lastOpaqueState
               /\ fired'[el].type = "none"
               /\ emitted'[el] = emitted[el]]_vars

\* a pass skipped a loaded entry that is not visible while the pointer was on
\* a pixel that had been classified transparent: the element has its
\* pre-registration pointer-events, not the 'none' of that classification
C11_Witness ==
  /\ useIntersectionObserver
  /\ lastOp = Op("raf", "", TRUE)
  /\ "e1" \in DOMAIN registry
  /\ sample["e1"].kind = "skipped"
  /\ registry["e1"].imageLoaded
  /\ registry["e1"].lastOpaqueState = "false"
  /\ lastEvent = <<3, 1>>
  /\ style["e1"] = "auto"
  /\ preReg["e1"] = "auto"

\* C12: after a resize notification for a loaded entry whose box rounds to
\* positive dimensions, the buffer has the rounded dimensions of the box and
\* holds a drawing of the source made at those dimensions
C12_ResizeRedraws ==
  \A el \in DOMAIN registry :
    (lastOp = Op("resize", el, TRUE) /\ registry[el].imageLoaded
       /\ Round(box[el].width) > 0 /\ Round(box[el].height) > 0)
      => /\ registry[el].canvasWidth = Round(box[el].width)
         /\ registry[el].canvasHeight = Round(box[el].height)
         /\ registry[el].drawn

\* C13 as stated: lastOpaqueState of an entry is unset right after add(), and
\* after every pass that found the pointer outside the box of the loaded,
\* visible entry
C13_ResetOnExit ==
  \A el \in DOMAIN registry :
    /\ lastOp = Op("add", el, TRUE) => registry[el].lastOpaqueState = "null"
    /\ sample[el].kind = "outside" => registry[el].lastOpaqueState = "null"

\* C13 amended: lastOpaqueState of an entry is unset right after add(); a pass
\* that finds the pointer outside the box of the loaded, visible entry resets
\* it to unset when it was true and leaves it as it was (unset or false)
\* otherwise
C13_ResetOnExitFromOpaque ==
  /\ [](\A el \in DOMAIN registry :
          lastOp = Op("add", el, TRUE) => registry[el].lastOpaqueState = "null")
  /\ [][\A el \in Els :
          sample'[el].kind = "outside"
            => /\ el \in DOMAIN registry /\ el \in DOMAIN registry'
               /\ registry'[el].lastOpaqueState =
                    IF registry[el].lastOpaqueState = "true"
                      THEN "null" ELSE registry[el].lastOpaqueState]_vars

\* a pass found the pointer outside the box of an entry last classified
\* transparent, and the entry still records that classification
C13_Witness ==
  /\ lastOp = Op("raf", "", TRUE)
  /\ "e1" \in DOMAIN registry
  /\ sample["e1"].kind = "outside"
  /\ registry["e1"].lastOpaqueState = "false"

\* C14: a pass that finds the pointer outside the box of a loaded, visible
\* entry leaves the element with the pointer-events it had before
\* registration; it dispatches 'alpha-mask-out' on the element exactly when
\* lastOpaqueState was true, with alpha 0 and coordinates (-1, -1), and it
\* dispatches nothing else on it
C14_ExitRestores ==
  [][\A el \in Els :
       sample'[el].kind = "outside"
         => /\ el \in DOMAIN registry
            /\ ComputedPointerEvents(style', el) = preReg[el]
            /\ style'[el] = registry[el].originalPointerEvents
            /\ fired'[el].type = IF registry[el].lastOpaqueState = "true"
                                   THEN "out" ELSE "none"
            /\ fired'[el].type = "out"
                 => /\ fired'[el].alpha = 0
                    /\ fired'[el].x = -1
                    /\ fired'[el].y = -1]_vars

\* the pointer left the box of an element that had inline pointer-events
\* 'none' before registration, from an opaque pixel: the leave event was
\* dispatched and 'none' is back
C14_Witness ==
  /\ lastOp = Op("raf", "", TRUE)
  /\ sample["e1"].kind = "outside"
  /\ fired["e1"].type = "out"
  /\ fired["e1"].after = "over"
  /\ preReg["e1"] = "none"
  /\ style["e1"] = "none"

\* C15: in every reachable state the global threshold and the threshold of
\* every entry lie in [0, 1]
C15_ThresholdsInRange ==
  /\ threshold >= 0 /\ threshold <= 1000
  /\ \A el \in DOMAIN registry :
       registry[el].threshold >= 0 /\ registry[el].threshold <= 1000

\* C16: setThreshold(v) stores 0 for v below 0, 1 for v above 1 and v
\* otherwise, as the global threshold and in every entry when called without
\* an element, and in the entry of the element it is called with
C16_SetThresholdClamps ==
  [][\A val \in ThresholdInputs, target \in Els \cup {"all"} :
       SetThreshold(val, target)
         => LET stored == IF val < 0 THEN 0 ELSE IF val > 1000 THEN 1000 ELSE val
            IN IF target = "all"
                 THEN /\ threshold' = stored
                      /\ \A el \in DOMAIN registry' : registry'[el].threshold = stored
                 ELSE target \in DOMAIN registry
                        => registry'[target].threshold = stored]_vars

\* setThreshold(-5) with both elements registered: the global threshold and
\* both entries hold 0 (no other input stores 0)
C16_Witness ==
  /\ lastOp = Op("setThreshold", "", FALSE)
  /\ threshold = 0
  /\ DOMAIN registry = Els
  /\ \A el \in Els : registry[el].threshold = 0

\* C17: setThreshold(v, el) for a registered el changes the threshold of el's
\* entry and nothing else; for an el that is not registered it changes
\* nothing; setThreshold(v) changes the global threshold and the threshold of
\* every entry to the clamped v and nothing else
C17_SetThresholdFrame ==
  [][\A val \in ThresholdInputs, target \in Els \cup {"all"} :
       SetThreshold(val, target)
         => LET stored == IF val < 0 THEN 0 ELSE IF val > 1000 THEN 1000 ELSE val
            IN /\ UNCHANGED << style, loads, nextId, resizeObservers, roActive,
                               intersectionObserver, intersectionElements,
                               mutationObserver, mutQueue, listenersAttached,
                               rafPending, lastEvent, rafQueued >>
               /\ DOMAIN registry' = DOMAIN registry
               /\ IF target = "all"
                    THEN /\ threshold' = stored
                         /\ \A el \in DOMAIN registry :
                              registry'[el] = [registry[el] EXCEPT !.threshold = stored]
                    ELSE /\ threshold' = threshold
                         /\ \A el \in DOMAIN registry :
                              registry'[el] = IF el = target
                                                THEN [registry[el] EXCEPT !.threshold = stored]
                                                ELSE registry[el]]_vars

\* setThreshold(-5, e1) with both elements registered: the entry of e1 holds 0,
\* the entry of e2 keeps the 5 it was registered with and the global threshold
\* keeps the default
C17_Witness ==
  /\ lastOp = Op("setThreshold", "e1", TRUE)
  /\ DOMAIN registry = Els
  /\ registry["e1"].threshold = 0
  /\ registry["e2"].threshold = 5000
  /\ threshold = DEFAULT_THRESHOLD

ThresholdGrid == {0, 200, 500, 999, 1000}

C20_NoAutoScan ==
  [][(IndexInit([autoScan |-> FALSE]) /\ ~instance) => registry' = << >>]_vars

\* C21: add() given a target that is no element, an element without a source
\* or an element that is already tracked changes nothing: the registry with
\* every field of every entry, the pointer-events of every element, the loads
\* in flight and the observers are as before
C21_AddNoOp ==
  [][\A opt \in Opts :
       /\ \A target \in NoTargets :
            AddNoTarget(target, opt)
              => UNCHANGED << registry, style, loads, nextId, resizeObservers, roActive,
                             intersectionElements, mutQueue, threshold >>
       /\ \A el \in Els :
            (Add(el, opt) /\ (elSrc[el] = "" \/ el \in DOMAIN registry))
              => UNCHANGED << registry, style, loads, nextId, resizeObservers, roActive,
                             intersectionElements, mutQueue, threshold >>]_vars

\* add() was called again for an element whose entry is loaded, has the
\* default threshold and was last classified opaque; the entry is as it was
\* and the element still 'auto'
C21_Witness ==
  /\ lastOp = Op("add", "e1", FALSE)
  /\ "e1" \in DOMAIN registry
  /\ registry["e1"].imageLoaded
  /\ registry["e1"].lastOpaqueState = "true"
  /\ registry["e1"].threshold = DEFAULT_THRESHOLD
  /\ style["e1"] = "auto"

\* C22: after a hit-test pass no exception has left the processing of an
\* entry, and every registered entry has been processed by the pass
C22_FailuresIsolated ==
  lastOp = Op("raf", "", TRUE)
    => \A el \in DOMAIN registry : sample[el].kind \notin {"threw", "none"}

\* the pointer of the last pass was inside the box of el and its mapped
\* coordinates were inside the buffer of the entry, or not
SampledInside(el) ==
  /\ lastOp = Op("raf", "", TRUE)
  /\ el \in DOMAIN registry
  /\ sample[el].kind = "inside"

MappedOf(el) ==
  MapPointerToCanvasCoordinates(lastEvent[1], lastEvent[2], RectOf(el),
                                registry[el].canvasWidth, registry[el].canvasHeight)

ReadThrew(el) ==
  /\ SampledInside(el)
  /\ InBuffer(MappedOf(el), registry[el])
  /\ Tainted(registry[el].currentSrc)
  /\ registry[el].drawn

\* the centre of the box of el, and its four corners
AtCentre(p, el) ==
  /\ 2 * Tenths * (p[1] - RectOf(el).left) = RectOf(el).width
  /\ 2 * Tenths * (p[2] - RectOf(el).top) = RectOf(el).height

AtCorner(p, el) ==
  /\ Tenths * (p[1] - RectOf(el).left) \in {0, RectOf(el).width}
  /\ Tenths * (p[2] - RectOf(el).top) \in {0, RectOf(el).height}

\* C24: when reading the buffer throws, the pass goes on and classifies the
\* entry with the alpha of _approximateAlphaFromBounds; on a tainted buffer
\* the alpha is 1 at the centre of the box and 0 at each of its corners
C24_TaintedFallback ==
  \A el \in Els :
    /\ ReadThrew(el)
         => /\ sample[el].alpha
                 = ApproximateAlphaFromBounds(lastEvent[1], lastEvent[2], RectOf(el))
            /\ style[el] = IF IsOpaque(sample[el].alpha, registry[el].threshold)
                              THEN "auto" ELSE "none"
    /\ (SampledInside(el) /\ Tainted(registry[el].currentSrc) /\ registry[el].drawn)
         => /\ AtCentre(lastEvent, el) => sample[el].alpha = AlphaOfByte(255)
            /\ AtCorner(lastEvent, el) => sample[el].alpha = 0

\* a pass read a tainted buffer at the centre of the box and found it opaque
C24_Witness ==
  /\ ReadThrew("e1")
  /\ AtCentre(lastEvent, "e1")
  /\ sample["e1"].alpha = AlphaOfByte(255)
  /\ style["e1"] = "auto"
  /\ fired["e1"].type = "over"

\* a pass read a tainted buffer at the top left corner of the box
C24_WitnessCorner ==
  /\ ReadThrew("e1")
  /\ lastEvent = <<0, 0>>
  /\ sample["e1"].alpha = 0
  /\ style["e1"] = "none"

\* C25 as stated: when drawImage threw in the last rasterizing of an entry,
\* the buffer holds what it held before, and a later pass that samples the
\* buffer classifies with the alpha of _approximateAlphaFromBounds
C25_DrawFailureKeepsBuffer ==
  /\ [](\A el \in Els :
          (SampledInside(el) /\ registry[el].drawFailed
             /\ InBuffer(MappedOf(el), registry[el]))
            => sample[el].alpha
                 = ApproximateAlphaFromBounds(lastEvent[1], lastEvent[2], RectOf(el)))
  /\ [][\A o \in roActive :
          (ResizeNotify(o) /\ IsCurrent(Cur, o[1], o[2]) /\ registry'[o[1]].drawFailed)
            => registry'[o[1]].drawn = registry[o[1]].drawn]_vars

RECURSIVE Gcd(_, _)
Gcd(a, b) == IF b = 0 THEN a ELSE Gcd(b, a % b)

\* the fraction n/d in lowest terms
Lowest(q) ==
  LET g == Gcd(IF q.n < 0 THEN -q.n ELSE q.n, q.d)
  IN [n |-> q.n \div g, d |-> q.d \div g]

\* two numbers are equal
EqNum(a, b) == ~a.nan /\ ~b.nan /\ Lowest(a) = Lowest(b)

\* _drawBackgroundToCanvas computed the rectangle for this background-size
DrawDone(mode) == calc.fn = "draw" /\ calc.done /\ calc.bgSize = mode

Abs(n) == IF n < 0 THEN -n ELSE n

\* one side of the destination is the side of the box and the other is less
\* than a pixel from the length that keeps the ratio of the source
KeepsRatio(dw, dh, W, H, w, h) ==
  \/ dw = W /\ Abs(dh * w - W * h) < w
  \/ dh = H /\ Abs(dw * h - H * w) < h

\* C26: for positive box sizes (W,H) and native sizes (w,h), 'cover' gives
\* dw >= W and dh >= H with one of them equal, 'contain' gives dw <= W and
\* dh <= H with one of them equal, both at the ratio of the source up to
\* rounding; box 100x50 with native 200x100 covers with (100,50), and box
\* 100x100 with native 200x100 contains with (100,50) and dy = 25 under
\* position center
C26_CoverContain ==
  LET o == calc.out
      W == calc.cw
      H == calc.ch
  IN
  /\ DrawDone(Css.cover)
       => /\ ~o.dw.nan /\ ~o.dh.nan
          /\ o.dw.n >= W /\ o.dh.n >= H
          /\ o.dw.n = W \/ o.dh.n = H
          /\ KeepsRatio(o.dw.n, o.dh.n, W, H, calc.iw, calc.ih)
          /\ (W = 100 /\ H = 50 /\ calc.iw = 200 /\ calc.ih = 100)
               => o.dw.n = 100 /\ o.dh.n = 50
  /\ DrawDone(Css.contain)
       => /\ ~o.dw.nan /\ ~o.dh.nan
          /\ o.dw.n <= W /\ o.dh.n <= H
          /\ o.dw.n = W \/ o.dh.n = H
          /\ KeepsRatio(o.dw.n, o.dh.n, W, H, calc.iw, calc.ih)
          /\ (W = 100 /\ H = 100 /\ calc.iw = 200 /\ calc.ih = 100 /\ calc.bgPos = Css.center)
               => o.dw.n = 100 /\ o.dh.n = 50 /\ EqNum(o.dy, Num(25, 1))

\* the rectangle for 'contain' and 'center' in a box of 100x100 with an image
\* of 200x100 was computed
C26_Witness ==
  /\ DrawDone(Css.contain)
  /\ calc.bgPos = Css.center
  /\ calc.cw = 100 /\ calc.ch = 100 /\ calc.iw = 200 /\ calc.ih = 100
  /\ calc.out.dw = Num(100, 1) /\ calc.out.dh = Num(50, 1)
  /\ calc.out.dx = Num(0, 1) /\ calc.out.dy = Num(25, 1)

\* the rectangle for 'cover' of an image wider than the box was computed
C26_WitnessCover ==
  /\ DrawDone(Css.cover)
  /\ calc.cw = 50 /\ calc.ch = 100 /\ calc.iw = 200 /\ calc.ih = 100
  /\ calc.out.dw = Num(200, 1) /\ calc.out.dh = Num(100, 1)

\* C27: the offset for container size C and item size I is 0 for left and
\* top, C - I for right and bottom, (C - I)/2 for center, (C - I) * p/100 for
\* 'p%' and the number written for a pixel length; so '0%' is 'left', '50%'
\* is 'center' and '100%' is 'right'
C27_PositionOffsets ==
  (calc.fn = "position" /\ calc.done)
    => LET v == calc.value
           C == calc.containerSize
           I == Num(calc.itemSize, 1)
           free == calc.containerSize - calc.itemSize
       IN /\ v.kind = "start" => EqNum(calc.out, Num(0, 1))
          /\ v.kind = "end" => EqNum(calc.out, Num(free, 1))
          /\ v.kind = "center" => EqNum(calc.out, Num(free, 2))
          /\ v.kind = "percent" => EqNum(calc.out, Num(free * v.num, 10000))
          /\ v.kind = "length" => EqNum(calc.out, Num(v.num, 100))
          /\ v.text = << "0", "%" >> => EqNum(calc.out, ParseCssPosition(Css.left, C, I))
          /\ v.text = << "5", "0", "%" >> => EqNum(calc.out, ParseCssPosition(Css.center, C, I))
          /\ v.text = << "1", "0", "0", "%" >>
               => EqNum(calc.out, ParseCssPosition(Css.right, C, I))

\* '50%' was resolved for an item of 50 in a container of 100
C27_Witness ==
  /\ calc.fn = "position" /\ calc.done
  /\ calc.value.text = << "5", "0", "%" >>
  /\ calc.containerSize = 100 /\ calc.itemSize = 50
  /\ EqNum(calc.out, Num(25, 1))

\* a*d - b*c of a matrix, in hundredths
Determinant(m) == m[1] * m[4] - m[2] * m[3]

\* C28: _invertMatrix gives the identity matrix for a matrix whose
\* determinant is 0, no component of it is NaN or infinite, and the pointer
\* is then mapped as it is without a transform
C28_SingularIsIdentity ==
  (calc.fn = "invert" /\ calc.done /\ Determinant(calc.matrix) = 0)
    => /\ calc.inverse = [num |-> << 1, 0, 0, 1, 0, 0 >>, den |-> 1]
       /\ calc.mapped = MapPointerToCanvasCoordinates(calc.point[1], calc.point[2],
                                                      RectOf("e1"), calc.cw, calc.ch)

\* the singular matrix (1, 2, 0.5, 1, 3, 0) was inverted and the pointer at
\* (1,1) mapped to column 1 of a buffer of 4x2
C28_Witness ==
  /\ calc.fn = "invert" /\ calc.done
  /\ calc.matrix = << 10, 20, 5, 10, 3, 0 >>
  /\ calc.point = << 1, 1 >> /\ calc.cw = 4
  /\ calc.inverse.num = << 1, 0, 0, 1, 0, 0 >>
  /\ calc.mapped = [canvasX |-> 1, canvasY |-> 1]

\* C29: for an element with a source that is not registered yet, add() puts
\* the element in the registry with the entry, the style and the load it
\* gets for any source, whatever the extension of the source is: known,
\* unknown, without alpha, or followed by a query string or a fragment
C29_FormatNeverBlocks ==
  [][\A el \in Els :
       (Add(el, NoOpts) /\ el \notin DOMAIN registry /\ elSrc[el] # "")
         => /\ el \in DOMAIN registry'
            /\ registry'[el] = NewEntry(Cur, el, elSrc[el], threshold)
            /\ style'[el] = "none"
            /\ [el |-> el, id |-> nextId, src |-> elSrc[el]] \in loads'
            /\ formatDetection' = detectImageFormat(UrlText(elSrc[el]))]_vars

\* an image with an unknown extension followed by a fragment was registered
\* with a warning
C29_Witness ==
  /\ lastOp = Op("add", "e1", TRUE)
  /\ elSrc["e1"] = "q.xyz#f"
  /\ formatDetection.format = << "x", "y", "z" >>
  /\ formatDetection.hasAlpha = "null" /\ formatDetection.warning
  /\ "e1" \in DOMAIN registry /\ registry["e1"].currentSrc = "q.xyz#f"

\* an image without alpha, written in capitals before a query string, was
\* registered with a warning
C29_WitnessNoAlpha ==
  /\ lastOp = Op("add", "e1", TRUE)
  /\ elSrc["e1"] = "p.JPG?v=1"
  /\ formatDetection.format = << "j", "p", "g" >>
  /\ formatDetection.hasAlpha = "false" /\ formatDetection.warning
  /\ "e1" \in DOMAIN registry

\* the entry that add() created as number id is in the registry and its image
\* has not loaded
Unloaded(el, id) ==
  /\ el \in DOMAIN registry
  /\ registry[el].id = id
  /\ ~registry[el].imageLoaded

\* C30: when every started load settles, every entry put in the registry
\* becomes loaded or leaves the registry in the end
C30_LoadSettles ==
  \A el \in Els, id \in 1..MaxRegs : Unloaded(el, id) ~> ~Unloaded(el, id)

\* the load of the entry of the second registration succeeded while the
\* element was registered, and the first entry is gone or loaded as well
C30_Witness ==
  /\ lastOp = Op("onload", "e1", TRUE)
  /\ "e1" \in DOMAIN registry
  /\ registry["e1"].id = 2
  /\ registry["e1"].imageLoaded
  /\ loads = {}

\* what a Manager holds and does to the page
ManagerState ==
  << registry, style, loads, nextId, threshold, listenersAttached, mutationObserver,
     intersectionObserver, intersectionElements, resizeObservers, roActive, mutQueue >>

\* C31: the first init() creates the instance, scans and attaches the
\* listeners; a later init(options) changes nothing, whatever the options;
\* register() before init() creates the instance; unregister() and
\* setThreshold() before init() do nothing
C31_Singleton ==
  [][/\ \A options \in InitOptions \cup {<< >>, [threshold |-> 200]} :
          IndexInit(options)
            => /\ instance'
               /\ instance => UNCHANGED ManagerState
               /\ ~instance
                    => /\ listenersAttached' /\ mutationObserver'
                       /\ threshold' = OptionThreshold(options)
                       /\ \A el \in Els : hasClass[el] => el \in DOMAIN registry'
     /\ \A el \in Els :
          (IndexRegister(el, NoOpts) /\ ~instance)
            => /\ instance' /\ listenersAttached' /\ mutationObserver'
               /\ el \in DOMAIN registry'
     /\ \A el \in Els :
          (IndexUnregister(el) /\ ~instance) => ~instance' /\ UNCHANGED ManagerState
     /\ \A val \in {200, 5000} :
          (IndexSetThreshold(val) /\ ~instance) => ~instance' /\ UNCHANGED ManagerState
    ]_vars

\* init() was called again, with or without options, on an instance whose
\* threshold setThreshold(5) had set and that holds a registered element:
\* the threshold is still the clamped one, which no options of init() carry
C31_Witness ==
  /\ lastOp = Op("index.init", "", FALSE)
  /\ instance
  /\ threshold = Clamp(5000)
  /\ "e1" \in DOMAIN registry
  /\ listenersAttached

\* a pass dispatched an event of the element to a listener that unregisters it
UnregisteredInPass(el) ==
  /\ lastOp = Op("raf", "", TRUE)
  /\ fault[el] = "unregister"
  /\ fired[el] # NoFired

\* C32: when a listener of an entry's own event unregisters the element
\* during a pass, then after the pass the element is not registered, its
\* pointer-events is the one it had before registration, and every other
\* entry was processed
C32_RemovalDuringPass ==
  \A el \in Els :
    UnregisteredInPass(el)
      => /\ el \notin DOMAIN registry
         /\ ComputedPointerEvents(style, el) = preReg[el]
         /\ \A o \in DOMAIN registry : sample[o] # NoSample

\* the load was started by an earlier registration of the element than the
\* one that is in the registry
StaleLoad(l) == l \in loads /\ Registered(Cur, l.el) /\ ~IsCurrent(Cur, l.el, l.id)

\* C33: a load that an earlier registration of the element started leaves the
\* current entry alone when it settles: its failure does not remove the
\* entry, its success does not mark the entry loaded
C33_LoadOfItsRegistration ==
  [][\A el \in Els, id \in 1..MaxRegs :
       LET l == [el |-> el, id |-> id, src |-> elSrc[el]]
       IN (StaleLoad(l) /\ Settles(l))
            => /\ el \in DOMAIN registry'
               /\ registry'[el].id = registry[el].id
               /\ registry'[el].imageLoaded = registry[el].imageLoaded]_vars

\* C34: with the source cache, an entry is marked loaded only when the image
\* of its source has finished loading successfully: not while the load of
\* the cached image is in flight and not after it failed
C34_LoadedOnlyAfterLoad ==
  \A el \in DOMAIN registry :
    registry[el].imageLoaded => maskCache[registry[el].currentSrc] = "complete"

\* a pass has just run with the coordinates of the last event delivered
TestedLast == lastOp = Op("raf", "", TRUE) /\ lastEvent = delivered

\* C35: when the frame callbacks run, every burst of pointer events is
\* followed by a hit-test pass at the coordinates of the most recent event
C35_LastPositionTested == (burst > 0) ~> TestedLast

\* a burst of two or more events ended on a translucent pixel of the loaded
\* first element: one frame is requested and the stored event is the last one
C35_Witness ==
  /\ burst = 2
  /\ rafPending /\ rafQueued = 1
  /\ delivered = <<3, 1>> /\ lastEvent = delivered
  /\ "e1" \in DOMAIN registry /\ registry["e1"].imageLoaded

\* C36: whenever the key of an entry's transform cache is the key of the
\* element's current transform and box, which is when the cached path is
\* taken, the cached inverse is the inverse of the current transform
C36_TransformCacheCoherent ==
  \A el \in DOMAIN registry :
    LET cache == registry[el].transformCache
    IN (cache.valid /\ cache.key = TransformCacheKey(transform[el], RectOf(el)))
         => cache.inverseMatrix = InvertMatrix(ParseTransformMatrix(transform[el]))

\* the scaling by 2 was cached, the transform changed and came back, and the
\* cache answers for the scaling by 2 with its inverse, a half
C36_Witness ==
  /\ "e1" \in DOMAIN registry
  /\ lastOp.op = "transform"
  /\ transform["e1"] = << "m", "a", "t", "r", "i", "x", "(", "2", ",", " ", "0", ",", " ", "0", ",", " ", "2", ",", " ", "0", ",", " ", "0", ")" >>
  /\ registry["e1"].transformCache.valid
  /\ registry["e1"].transformCache.key = TransformCacheKey(transform["e1"], RectOf("e1"))
  /\ registry["e1"].transformCache.inverseMatrix.num[1] * 2
       = registry["e1"].transformCache.inverseMatrix.den

\* C37: an 'alpha-mask-over' event carries the entry's threshold and an alpha
\* above it; an 'alpha-mask-out' event carries the entry's threshold and an
\* alpha that is not above it, the leave on exit from the box (alpha 0)
\* included
C37_EventsCarryVerdict ==
  \A el \in DOMAIN registry :
    fired[el] # NoFired
      => /\ fired[el].threshold = registry[el].threshold
         /\ fired[el].type = "over" => fired[el].alpha > ThresholdUnits(fired[el].threshold)
         /\ fired[el].type = "out" => fired[el].alpha <= ThresholdUnits(fired[el].threshold)

\* C38: the element of an entry whose _lastOpaqueState is true has
\* pointer-events 'auto'
C38_OpaqueIsInteractive ==
  \A el \in DOMAIN registry :
    registry[el].lastOpaqueState = "true" => style[el] = "auto"

\* C39: the rectangles maskToRects returns have height 1, lie inside the
\* image, are pairwise disjoint, cover exactly the pixels whose mask value
\* is 1, are maximal runs (no two of a row are adjacent), and are listed in
\* row order and, within a row, from left to right
C39_RectsAreTheRuns ==
  (calc.fn = "rects" /\ calc.done) =>
    LET rects == calc.out
        Covers(r, x, y) == r.y = y /\ r.x <= x /\ x < r.x + r.w
    IN /\ \A i \in 1..Len(rects) :
            /\ rects[i].h = 1 /\ rects[i].w >= 1
            /\ rects[i].x >= 0 /\ rects[i].x + rects[i].w <= calc.width
            /\ rects[i].y >= 0 /\ rects[i].y < calc.height
       /\ \A x \in 0..(calc.width - 1), y \in 0..(calc.height - 1) :
            (calc.mask[y * calc.width + x + 1] = 1)
              <=> \E i \in 1..Len(rects) : Covers(rects[i], x, y)
       /\ \A i, j \in 1..Len(rects) :
            i < j =>
              /\ \/ rects[i].y < rects[j].y
                 \/ rects[i].y = rects[j].y /\ rects[i].x + rects[i].w < rects[j].x

\* a mask of 3 by 2 pixels whose first row has two runs and whose second row
\* is one run of two pixels was turned into three rectangles
C39_Witness ==
  /\ calc.fn = "rects" /\ calc.done
  /\ calc.width = 3 /\ calc.height = 2
  /\ calc.mask = << 1, 0, 1, 0, 1, 1 >>
  /\ calc.out = << [x |-> 0, y |-> 0, w |-> 1, h |-> 1],
                   [x |-> 2, y |-> 0, w |-> 1, h |-> 1],
                   [x |-> 1, y |-> 1, w |-> 2, h |-> 1] >>

\* C40: for every path, isSupportedImageFormat is true exactly when
\* detectImageFormat of the tool is not null
C40_DetectionAndSupportAgree ==
  (calc.fn = "format" /\ calc.done) => (calc.supported <=> calc.format # << >>)

====
